---- MODULE Spec2Model ----
(***************************************************************************)
(* FlawFactory: the request dispatch pipeline (router, input extractor,    *)
(* per-endpoint handler closure, module handlers, response renderer) and   *)
(* the server lifecycle (Stop), modelled from the Go sources.              *)
(*                                                                         *)
(* Strings of the program are sequences of tokens: "user.name" is          *)
(* <<"user", ".", "name">>, the empty string is <<>>, concatenation is \o. *)
(* Every pattern the code searches for is one token or a run of tokens.    *)
(***************************************************************************)
EXTENDS Integers, Sequences, FiniteSets, TLC

\* ------------------------------------------------------------------------
\* Bounds of the model
\* ------------------------------------------------------------------------

\* Largest number of vulnerability descriptors on one endpoint.
MaxVulns == 2

\* Largest number of requests in flight while the server is stopped.
MaxInflight == 3

\* ------------------------------------------------------------------------
\* String helpers (Go strings package)
\* ------------------------------------------------------------------------

EmptyStr == <<>>

\* strings.HasPrefix(s, p)
HasPrefix(s, p) ==
    /\ Len(p) <= Len(s)
    /\ \A i \in 1..Len(p) : s[i] = p[i]

\* strings.Contains(s, p)
Contains(s, p) ==
    \E k \in 0..(Len(s) - Len(p)) : \A i \in 1..Len(p) : s[k + i] = p[i]

\* strings.ToLower on one token: the upper-case spellings the model's inputs use.
LowerTok(t) ==
    CASE t = "LOCALHOST" -> "localhost"
      [] t = "HTTP://"   -> "http://"
      [] t = "<!DOCTYPE" -> "<!doctype"
      [] t = "<!ENTITY"  -> "<!entity"
      [] t = "SYSTEM"    -> "system"
      [] OTHER           -> t

\* strings.ToLower(s)
ToLower(s) == [i \in 1..Len(s) |-> LowerTok(s[i])]

RECURSIVE SplitFrom(_, _, _, _)
SplitFrom(s, sep, i, cur) ==
    IF i > Len(s) THEN <<cur>>
    ELSE IF s[i] = sep THEN <<cur>> \o SplitFrom(s, sep, i + 1, <<>>)
    ELSE SplitFrom(s, sep, i + 1, Append(cur, s[i]))

\* strings.Split(s, sep) for a one-token separator
Split(s, sep) == SplitFrom(s, sep, 1, <<>>)

DigitToks == {"0", "1", "7", "42"}

\* strconv.Atoi(s) succeeds: an optional sign followed by digits only.
AtoiOk(s) ==
    LET body == IF Len(s) > 0 /\ s[1] \in {"-", "+"} THEN Tail(s) ELSE s
    IN  /\ Len(body) > 0
        /\ \A i \in 1..Len(body) : body[i] \in DigitToks

\* Number of bytes of one token, for the tokens the model's inputs are made of.
TokLen(t) ==
    CASE t \in {"http://", "HTTP://"}  -> 7
      [] t \in {"localhost", "LOCALHOST", "<!DOCTYPE", "<!doctype"} -> 9
      [] t = "example.com" -> 11
      [] t = "abc" -> 3
      [] t \in {"O:", "42"} -> 2
      [] t = "Evil" -> 4
      [] OTHER -> 1

RECURSIVE StrLenFrom(_, _)
StrLenFrom(s, i) == IF i > Len(s) THEN 0 ELSE TokLen(s[i]) + StrLenFrom(s, i + 1)

\* len(s)
StrLen(s) == StrLenFrom(s, 1)

\* ------------------------------------------------------------------------
\* JSON values (encoding/json generic tree)
\* ------------------------------------------------------------------------

NoFields == <<>>

JStr(s)  == [t |-> "str",  s |-> s,    n |-> 0, b |-> FALSE, o |-> NoFields]
JNum(n)  == [t |-> "num",  s |-> <<>>, n |-> n, b |-> FALSE, o |-> NoFields]
JBool(b) == [t |-> "bool", s |-> <<>>, n |-> 0, b |-> b,     o |-> NoFields]
JNull    == [t |-> "null", s |-> <<>>, n |-> 0, b |-> FALSE, o |-> NoFields]
\* o is a sequence of <<key, value>> members
JObj(o)  == [t |-> "obj",  s |-> <<>>, n |-> 0, b |-> FALSE, o |-> o]

\* v[part] on a map[string]interface{}: the member with that key, nil if absent
\* (for a repeated key the decoder keeps the last one).
JGet(obj, key) ==
    LET idx == {i \in 1..Len(obj.o) : obj.o[i][1] = key}
    IN  IF idx = {} THEN JNull
        ELSE obj.o[CHOOSE i \in idx : \A j \in idx : j <= i][2]

RECURSIVE JMarshal(_)
RECURSIVE JMarshalMembers(_, _)
\* json.Marshal(v)
JMarshal(v) ==
    CASE v.t = "str"  -> <<"\"">> \o v.s \o <<"\"">>
      [] v.t = "num"  -> <<ToString(v.n)>>
      [] v.t = "bool" -> IF v.b THEN <<"true">> ELSE <<"false">>
      [] v.t = "null" -> <<"null">>
      [] OTHER        -> <<"{">> \o JMarshalMembers(v.o, 1) \o <<"}">>
JMarshalMembers(o, i) ==
    IF i > Len(o) THEN <<>>
    ELSE (IF i > 1 THEN <<",">> ELSE <<>>)
         \o <<"\"">> \o o[i][1] \o <<"\"", ":">> \o JMarshal(o[i][2])
         \o JMarshalMembers(o, i + 1)

RECURSIVE JWalk(_, _, _)
JWalk(cur, parts, i) ==
    IF i > Len(parts) THEN [ok |-> TRUE, v |-> cur]
    ELSE IF cur.t = "obj" THEN JWalk(JGet(cur, parts[i]), parts, i + 1)
    ELSE [ok |-> FALSE, v |-> JNull]

\* navigateJSON(data, path)
navigateJSON(data, path) ==
    LET w == JWalk(data, Split(path, "."), 1)
    IN  IF ~w.ok THEN EmptyStr
        ELSE CASE w.v.t = "str"  -> w.v.s
               [] w.v.t = "num"  -> <<ToString(w.v.n)>>
               [] w.v.t = "bool" -> IF w.v.b THEN <<"true">> ELSE <<"false">>
               [] w.v.t = "null" -> EmptyStr
               [] OTHER          -> JMarshal(w.v)

\* ------------------------------------------------------------------------
\* HTTP request (net/http.Request as the extractor sees it)
\* ------------------------------------------------------------------------

\* Body contents.  fmt tells which parser accepts the bytes:
\*   "empty"     no bytes
\*   "json"      a JSON document doc
\*   "text"      bytes that are neither JSON, nor a form, nor multipart
\*   "form"      URL-encoded pairs
\*   "multipart" parts delimited by boundary; closed = final boundary present
Body(fmt, doc, pairs, boundary, parts, closed) ==
    [fmt |-> fmt, doc |-> doc, pairs |-> pairs, boundary |-> boundary,
     parts |-> parts, closed |-> closed]

EmptyBody      == Body("empty", JNull, <<>>, "", <<>>, TRUE)
JSONBody(doc)  == Body("json", doc, <<>>, "", <<>>, TRUE)
TextBody       == Body("text", JNull, <<>>, "", <<>>, TRUE)
FormBody(prs)  == Body("form", JNull, prs, "", <<>>, TRUE)
MultipartBody(b, parts, closed) == Body("multipart", JNull, <<>>, b, parts, closed)

\* url.Values / header / cookie lookups: first value of the key, "" if absent
KVHas(kv, key) == \E i \in 1..Len(kv) : kv[i][1] = key
KVGet(kv, key) ==
    IF KVHas(kv, key)
    THEN kv[CHOOSE i \in 1..Len(kv) :
                /\ kv[i][1] = key
                /\ \A j \in 1..(i - 1) : kv[j][1] # key][2]
    ELSE EmptyStr

\* Percent-decoding of one token; "%zz" is an invalid escape.
PctDecodeTok(t) ==
    CASE t = "%27" -> "'"
      [] t = "%26" -> "&"
      [] t = "+"   -> " "
      [] OTHER     -> t

\* url.QueryUnescape(s)
QueryUnescape(s) ==
    [ok |-> \A i \in 1..Len(s) : s[i] # "%zz",
     v  |-> [i \in 1..Len(s) |-> PctDecodeTok(s[i])]]

\* url.ParseQuery(query): pairs that fail to unescape are dropped and the
\* first failure is reported, the others are kept in order.
ParseQuery(pairs) ==
    LET good(p) == QueryUnescape(p[1]).ok /\ QueryUnescape(p[2]).ok
        kept    == SelectSeq(pairs, good)
    IN  [vals |-> [i \in 1..Len(kept) |->
                      <<QueryUnescape(kept[i][1]).v, QueryUnescape(kept[i][2]).v>>],
         ok   |-> \A i \in 1..Len(pairs) : good(pairs[i])]

BodyMethods == {"POST", "PUT", "PATCH"}

\* io.ReadAll(r.Body): the bytes not yet read; the reader is exhausted after.
ReadAll(req) ==
    [bytes |-> IF req.bodyRead THEN EmptyBody ELSE req.body,
     req   |-> [req EXCEPT !.bodyRead = TRUE]]

\* http.Request.ParseForm: parses the body at most once (r.PostForm,
\* r.Form are cached on the request), reports an error only on the call
\* that parsed.
ParseForm(req) ==
    IF req.formParsed THEN [ok |-> TRUE, req |-> req]
    ELSE LET readsBody == /\ req.method \in BodyMethods
                          /\ req.media = "application/x-www-form-urlencoded"
             rd   == ReadAll(req)
             r1   == IF readsBody THEN rd.req ELSE req
             post == IF readsBody /\ rd.bytes.fmt = "form"
                     THEN ParseQuery(rd.bytes.pairs)
                     ELSE [vals |-> <<>>, ok |-> TRUE]
             qry  == ParseQuery(req.query)
         IN  [ok  |-> post.ok /\ qry.ok,
              req |-> [r1 EXCEPT !.formParsed = TRUE,
                                 !.form = post.vals \o qry.vals]]

\* ------------------------------------------------------------------------
\* Input extractor
\* ------------------------------------------------------------------------

\* ExtractionError.Error()
ExtractionError(placement, param, message) ==
    <<"extraction error [", placement, ":">> \o param \o <<"]: ">> \o message

Extracted(value, err, req) == [value |-> value, err |-> err, req |-> req]

extractQueryParam(req, param) == KVGet(ParseQuery(req.query).vals, param)

extractPathParam(req, param) == KVGet(req.path, param)

extractHeader(req, param) == KVGet(req.header, param)

extractCookie(req, param) ==
    IF ~KVHas(req.cookie, param) THEN EmptyStr
    ELSE LET raw == KVGet(req.cookie, param)
             dec == QueryUnescape(raw)
         IN  IF dec.ok THEN dec.v ELSE raw

extractFormField(req, param) ==
    LET pf == ParseForm(req)
    IN  IF ~pf.ok
        THEN Extracted(EmptyStr,
                       ExtractionError("form_field", param,
                           <<"failed to parse form: ", "invalid URL escape">>),
                       pf.req)
        ELSE Extracted(KVGet(pf.req.form, param), EmptyStr, pf.req)

\* json.Unmarshal(body, &data) with data a map[string]interface{}
UnmarshalErr(bytes) ==
    CASE bytes.fmt = "empty" -> <<"unexpected end of JSON input">>
      [] bytes.fmt = "json" /\ bytes.doc.t \in {"obj", "null"} -> EmptyStr
      [] bytes.fmt = "json" -> <<"json: cannot unmarshal into Go value of type map">>
      [] OTHER -> <<"invalid character">>

extractJSONField(req, param) ==
    LET rd  == ReadAll(req)
        err == UnmarshalErr(rd.bytes)
    IN  IF err # EmptyStr
        THEN Extracted(EmptyStr,
                       ExtractionError("json_field", param,
                                       <<"failed to parse JSON: ">> \o err),
                       rd.req)
        ELSE Extracted(navigateJSON(rd.bytes.doc, param), EmptyStr, rd.req)

\* First part named param, 0 if there is none.
FirstPart(parts, param) ==
    LET idx == {i \in 1..Len(parts) : parts[i][1] = param}
    IN  IF idx = {} THEN 0 ELSE CHOOSE i \in idx : \A j \in idx : i <= j

\* mime.ParseMediaType(Content-Type) succeeds and the media type has the
\* prefix "multipart/", over the media types requests carry ("" is no header)
MediaIsMultipart(media) == media \in {"multipart/form-data", "multipart/mixed"}

\* The multipart reader buffers its input: a body shorter than the buffer is
\* drained from r.Body by the first NextPart, whichever part is returned.
extractMultipartForm(req, param) ==
    IF ~MediaIsMultipart(req.media)
    THEN Extracted(EmptyStr,
                   ExtractionError("multipart-form", param,
                                   <<"request is not multipart form data">>),
                   req)
    ELSE IF req.boundary = ""
    THEN Extracted(EmptyStr,
                   ExtractionError("multipart-form", param,
                                   <<"no boundary in multipart form">>),
                   req)
    ELSE LET rd    == ReadAll(req)
             wellF == rd.bytes.fmt = "multipart" /\ rd.bytes.boundary = req.boundary
             k     == IF wellF THEN FirstPart(rd.bytes.parts, param) ELSE 0
         IN  IF ~wellF
             THEN Extracted(EmptyStr,
                            ExtractionError("multipart-form", param,
                                <<"failed to parse multipart: ", "multipart: NextPart: EOF">>),
                            rd.req)
             ELSE IF k # 0
             THEN Extracted(rd.bytes.parts[k][2], EmptyStr, rd.req)
             ELSE IF rd.bytes.closed
             THEN Extracted(EmptyStr, EmptyStr, rd.req)
             ELSE Extracted(EmptyStr,
                            ExtractionError("multipart-form", param,
                                <<"failed to parse multipart: ", "multipart: NextPart: EOF">>),
                            rd.req)

\* Extractor.Extract(r, placement, param)
Extract(req, placement, param) ==
    CASE placement = "query_param"    -> Extracted(extractQueryParam(req, param), EmptyStr, req)
      [] placement = "path_param"     -> Extracted(extractPathParam(req, param), EmptyStr, req)
      [] placement = "header"         -> Extracted(extractHeader(req, param), EmptyStr, req)
      [] placement = "cookie"         -> Extracted(extractCookie(req, param), EmptyStr, req)
      [] placement = "form_field"     -> extractFormField(req, param)
      [] placement = "json_field"     -> extractJSONField(req, param)
      [] placement = "multipart-form" -> extractMultipartForm(req, param)
      [] OTHER -> Extracted(EmptyStr,
                            ExtractionError(placement, param,
                                            <<"unsupported placement type">>),
                            req)

\* ------------------------------------------------------------------------
\* Module contract
\* ------------------------------------------------------------------------

\* GetConfigString / GetConfigBool: the option if the endpoint sets it,
\* the default otherwise.  A config is a function from option names.
GetConfigString(cfg, key, defaultValue) ==
    IF key \in DOMAIN cfg THEN cfg[key] ELSE defaultValue

GetConfigBool(cfg, key, defaultValue) ==
    IF key \in DOMAIN cfg THEN cfg[key] ELSE defaultValue

NoConfig == [k \in {} |-> TRUE]

RECURSIVE ReplaceAllFrom(_, _, _, _)
ReplaceAllFrom(s, old, new, i) ==
    IF i > Len(s) THEN <<>>
    ELSE IF /\ i + Len(old) - 1 <= Len(s)
            /\ \A k \in 1..Len(old) : s[i + k - 1] = old[k]
    THEN new \o ReplaceAllFrom(s, old, new, i + Len(old))
    ELSE <<s[i]>> \o ReplaceAllFrom(s, old, new, i + 1)

\* strings.ReplaceAll(s, old, new), old not empty
ReplaceAll(s, old, new) == ReplaceAllFrom(s, old, new, 1)

\* Payload of a result.  kind names the shape of the map the module builds,
\* blocked is its "blocked" member, detail its message / reason / query.
Data(kind, blocked, detail) == [kind |-> kind, blocked |-> blocked, detail |-> detail]
NilData == Data("nil", FALSE, EmptyStr)

\* modules.Result; isNil is a nil *Result
Result(data, error, status, raw) ==
    [isNil |-> FALSE, data |-> data, error |-> error, status |-> status, raw |-> raw]
NilResult ==
    [isNil |-> TRUE, data |-> NilData, error |-> EmptyStr, status |-> 0, raw |-> FALSE]

\* NewResult(data)
NewResult(data) == Result(data, EmptyStr, 0, FALSE)

\* NewErrorResult(err)
NewErrorResult(err) == Result(NilData, err, 0, FALSE)

\* What Handle returns: (result, error) and the provider calls it made.
Handled(res, calls) == [res |-> res, terr |-> EmptyStr, calls |-> calls]
TransportError(err) == [res |-> NilResult, terr |-> err, calls |-> <<>>]

\* Outcome of the one provider call a handler makes:
\*   "rows"  the call succeeds with content
\*   "empty" the call succeeds with nothing found
\*   "err"   the call fails
Outcomes == {"rows", "empty", "err"}

ProviderErr == <<"provider error">>

\* ------------------------------------------------------------------------
\* sql_injection
\* ------------------------------------------------------------------------

applyInputFilter(input, filter) ==
    CASE filter = "basic_quotes"    -> ReplaceAll(input, <<"'">>, <<"''">>)
      [] filter = "remove_comments" ->
            ReplaceAll(ReplaceAll(ReplaceAll(input, <<"--">>, <<>>), <<"/*">>, <<>>),
                       <<"*/">>, <<>>)
      [] filter = "remove_union"    ->
            ReplaceAll([i \in 1..Len(input) |->
                            IF input[i] = "union" THEN "UNION" ELSE input[i]],
                       <<"UNION">>, <<>>)
      [] OTHER -> input

handleErrorBased(query, showErrors, out) ==
    IF out = "err"
    THEN IF showErrors
         THEN Handled(Result(Data("sql_error", FALSE, query), ProviderErr, 0, FALSE),
                      <<"sqlite.Query">>)
         ELSE Handled(NewErrorResult(<<"Database error">>), <<"sqlite.Query">>)
    ELSE IF out = "empty"
    THEN Handled(NewResult(Data("no_results", FALSE, EmptyStr)), <<"sqlite.Query">>)
    ELSE Handled(NewResult(Data("results", FALSE, EmptyStr)), <<"sqlite.Query">>)

handleBlindBoolean(query, out) ==
    Handled(NewResult(Data("blind", FALSE,
                           IF out = "err" THEN <<"Query failed">>
                           ELSE IF out = "rows" THEN <<"Record found">>
                           ELSE <<"Record not found">>)),
            <<"sqlite.Query">>)

SQLInjection_Handle(ctx, out) ==
    IF ~ctx.sinks.sqlite THEN TransportError(<<"SQLite sink not available">>)
    ELSE LET variant       == GetConfigString(ctx.config, "variant", "error_based")
             queryTemplate == GetConfigString(ctx.config, "query_template", EmptyStr)
             showErrors    == GetConfigBool(ctx.config, "show_errors", TRUE)
             filter        == GetConfigString(ctx.config, "filter", "none")
             query == ReplaceAll(queryTemplate, <<"{input}">>,
                                 applyInputFilter(ctx.input, filter))
         IN  IF queryTemplate = EmptyStr
             THEN TransportError(<<"query_template is required for sql_injection">>)
             ELSE IF variant = "blind_boolean" THEN handleBlindBoolean(query, out)
             ELSE handleErrorBased(query, showErrors, out)

\* ------------------------------------------------------------------------
\* idor
\* ------------------------------------------------------------------------

\* validateInput(input, variant): the error message, "" when the input is valid
validateInput(input, variant) ==
    IF input = EmptyStr THEN <<"ID parameter is required">>
    ELSE CASE variant = "numeric" ->
                 IF AtoiOk(input) THEN EmptyStr ELSE <<"ID must be a numeric value">>
           [] variant = "uuid" ->
                 IF StrLen(input) < 8 THEN <<"ID must be a valid UUID">> ELSE EmptyStr
           [] OTHER -> EmptyStr

\* checkAccessControl(ctx, input, accessControl): the error message, "" when
\* access is let through
checkAccessControl(ctx, accessControl) ==
    CASE accessControl = "weak_header" ->
             IF KVGet(ctx.req.header, <<"X-User-ID">>) = EmptyStr
             THEN <<"unauthorized: missing X-User-ID header">> ELSE EmptyStr
      [] accessControl = "weak_cookie" ->
             IF KVGet(ctx.req.cookie, <<"user_id">>) = EmptyStr
             THEN <<"unauthorized: missing user_id cookie">> ELSE EmptyStr
      [] accessControl = "predictable_token" ->
             LET token == KVGet(ctx.req.header, <<"Authorization">>)
             IN  IF token = EmptyStr
                 THEN <<"unauthorized: missing Authorization header">>
                 ELSE IF ~HasPrefix(token, <<"Bearer user_">>)
                 THEN <<"unauthorized: invalid token format">>
                 ELSE EmptyStr
      [] OTHER -> EmptyStr

\* handleNumeric / handleUUID / handleEncoded / handlePredictable: the same
\* control flow, the payload differs in its shape only
handleIDORQuery(variant, query, showErrors, out) ==
    IF out = "err"
    THEN IF showErrors
         THEN Handled(Result(Data("sql_error", FALSE, query), ProviderErr, 0, FALSE),
                      <<"sqlite.Query">>)
         ELSE Handled(NewErrorResult(<<"Database error">>), <<"sqlite.Query">>)
    ELSE IF out = "empty"
    THEN Handled(Result(Data("not_found", FALSE, <<"Resource not found">>),
                        EmptyStr, 404, FALSE),
                 <<"sqlite.Query">>)
    ELSE Handled(NewResult(Data("resource", FALSE, <<variant>>)), <<"sqlite.Query">>)

IDORInvalidInput(err, showErrors) ==
    IF showErrors
    THEN Handled(Result(Data("idor_error", TRUE, err), err, 400, FALSE), <<>>)
    ELSE Handled(NewErrorResult(<<"Invalid input">>), <<>>)

\* Handle going to the provider without looking whether it exists
IDOR_HandleUnchecked(ctx, out) ==
    LET variant       == GetConfigString(ctx.config, "variant", "numeric")
        queryTemplate == GetConfigString(ctx.config, "query_template", EmptyStr)
        showErrors    == GetConfigBool(ctx.config, "show_errors", TRUE)
        accessControl == GetConfigString(ctx.config, "access_control", "none")
        invalid == validateInput(ctx.input, variant)
        denied  == checkAccessControl(ctx, accessControl)
        query   == ReplaceAll(queryTemplate, <<"{input}">>, ctx.input)
    IN  IF queryTemplate = EmptyStr
        THEN TransportError(<<"query_template is required for idor">>)
        ELSE IF invalid # EmptyStr THEN IDORInvalidInput(invalid, showErrors)
        ELSE IF denied # EmptyStr
        THEN Handled(Result(Data("idor_error", TRUE, denied), denied, 403, FALSE), <<>>)
        ELSE handleIDORQuery(variant, query, showErrors,
                             IF ctx.sinks.sqlite THEN out ELSE "err")

IDOR_Handle(ctx, out) ==
    IF ~ctx.sinks.sqlite THEN TransportError(<<"SQLite sink not available">>)
    ELSE LET variant       == GetConfigString(ctx.config, "variant", "numeric")
             queryTemplate == GetConfigString(ctx.config, "query_template", EmptyStr)
             showErrors    == GetConfigBool(ctx.config, "show_errors", TRUE)
             accessControl == GetConfigString(ctx.config, "access_control", "none")
             invalid == validateInput(ctx.input, variant)
             denied  == checkAccessControl(ctx, accessControl)
             query   == ReplaceAll(queryTemplate, <<"{input}">>, ctx.input)
         IN  IF queryTemplate = EmptyStr
             THEN TransportError(<<"query_template is required for idor">>)
             ELSE IF invalid # EmptyStr THEN IDORInvalidInput(invalid, showErrors)
             ELSE IF denied # EmptyStr
             THEN IF showErrors
                  THEN Handled(Result(Data("idor_error", TRUE, denied), denied, 403, FALSE),
                               <<>>)
                  ELSE Handled(Result(Data("access_denied", FALSE, <<"Access denied">>),
                                      EmptyStr, 403, FALSE),
                               <<>>)
             ELSE handleIDORQuery(variant, query, showErrors, out)

\* ------------------------------------------------------------------------
\* path_traversal, command_injection
\* ------------------------------------------------------------------------

applyPathFilter(path, filter) ==
    CASE filter = "basic_dots"    -> ReplaceAll(path, <<"../">>, <<>>)
      [] filter = "basic_slashes" ->
            ReplaceAll(ReplaceAll(path, <<"\\">>, <<"/">>), <<"/", "/">>, <<"/">>)
      [] filter = "null_byte"     -> ReplaceAll(path, <<"%00">>, <<>>)
      [] OTHER -> path

PathTraversal_Handle(ctx, out) ==
    IF ~ctx.sinks.filesystem THEN TransportError(<<"Filesystem sink not available">>)
    ELSE LET filter   == GetConfigString(ctx.config, "filter", "none")
             filePath == applyPathFilter(ctx.input, filter)
         IN  IF out = "rows"
             THEN Handled(NewResult(Data("file", FALSE, filePath)), <<"filesystem.Read">>)
             ELSE Handled(Result(Data("file_error", FALSE, filePath), ProviderErr, 0, FALSE),
                          <<"filesystem.Read">>)

applyCommandFilter(input, filter) ==
    CASE filter = "basic_semicolon" -> ReplaceAll(input, <<";">>, <<>>)
      [] filter = "basic_pipe"      -> ReplaceAll(input, <<"|">>, <<>>)
      [] filter = "basic_both"      ->
            ReplaceAll(ReplaceAll(input, <<";">>, <<>>), <<"|">>, <<>>)
      [] filter = "url_decode"      ->
            LET stripped == ReplaceAll(ReplaceAll(ReplaceAll(ReplaceAll(ReplaceAll(
                                input, <<";">>, <<>>), <<"|">>, <<>>), <<"&">>, <<>>),
                                <<"BACKTICK">>, <<>>), <<"$">>, <<>>)
                dec == QueryUnescape(stripped)
            IN  IF dec.ok THEN dec.v ELSE stripped
      [] OTHER -> input

CommandInjection_Handle(ctx, out) ==
    IF ~ctx.sinks.command THEN TransportError(<<"Command sink not available">>)
    ELSE LET baseCommand == GetConfigString(ctx.config, "base_command", EmptyStr)
             filter      == GetConfigString(ctx.config, "filter", "none")
             input       == applyCommandFilter(ctx.input, filter)
             command     == IF baseCommand # EmptyStr
                            THEN ReplaceAll(baseCommand, <<"{input}">>, input)
                            ELSE input
         IN  IF out = "err"
             THEN Handled(Result(Data("command_error", FALSE, command), ProviderErr, 0, FALSE),
                          <<"command.Execute">>)
             ELSE Handled(NewResult(Data("command_output", FALSE, command)),
                          <<"command.Execute">>)

\* ------------------------------------------------------------------------
\* ssrf
\* ------------------------------------------------------------------------

SSRFBlockedPatterns ==
    {"localhost", "127.0.0.1", "127.0.0.0", "0.0.0.0", "[::1]", "[0:0:0:0:0:0:0:1]",
     "169.254.", "10.", "192.168.", "172.16.", "172.17.", "172.18.", "172.19.",
     "172.20.", "172.21.", "172.22.", "172.23.", "172.24.", "172.25.", "172.26.",
     "172.27.", "172.28.", "172.29.", "172.30.", "172.31."}

\* validateURL(url, filter, cfg): the error message, "" when the URL passes
validateURL(url, filter) ==
    CASE filter = "scheme_only" ->
             IF \/ HasPrefix(ToLower(url), <<"http://">>)
                \/ HasPrefix(ToLower(url), <<"https://">>)
             THEN EmptyStr
             ELSE <<"URL scheme not allowed. Allowed schemes: ", "[http:// https://]">>
      [] filter = "basic_host" ->
             IF \E p \in SSRFBlockedPatterns : Contains(ToLower(url), <<p>>)
             THEN <<"access to internal hosts is not allowed">>
             ELSE EmptyStr
      [] OTHER -> EmptyStr

SSRF_Handle(ctx, out) ==
    IF ~ctx.sinks.http THEN TransportError(<<"HTTP sink not available">>)
    ELSE LET filter  == GetConfigString(ctx.config, "filter", "none")
             blocked == validateURL(ctx.input, filter)
         IN  IF blocked # EmptyStr
             THEN Handled(Result(Data("ssrf_error", TRUE, blocked), blocked, 0, FALSE), <<>>)
             ELSE IF out = "err"
             THEN Handled(Result(Data("ssrf_error", FALSE, ProviderErr), ProviderErr, 0, FALSE),
                          <<"http.FetchWithOptions">>)
             ELSE Handled(NewResult(Data("ssrf_response", FALSE, ctx.input)),
                          <<"http.FetchWithOptions">>)

\* ------------------------------------------------------------------------
\* insecure_deserialization, xxe, nosql_injection, xss_reflected
\* ------------------------------------------------------------------------

DeserBlockedClasses ==
    <<"org.apache.commons.collections", "org.springframework", "com.sun.org.apache",
      "java.lang.Runtime", "ProcessBuilder">>

\* getStringSlice(cfg, key, {})
getStringSlice(cfg, key) == IF key \in DOMAIN cfg THEN cfg[key] ELSE <<>>

\* applyDeserializationFilter(input, filter, cfg): blocked? and the reason
applyDeserializationFilter(input, filter, cfg) ==
    CASE filter = "basic_signature" ->
             IF Contains(input, <<"\\xac\\xed">>) \/ Contains(input, <<"rO0AB">>)
             THEN [blocked |-> TRUE, reason |-> <<"Java serialization signature blocked">>]
             ELSE [blocked |-> FALSE, reason |-> EmptyStr]
      [] filter = "basic_class" ->
             LET hits == {i \in 1..Len(DeserBlockedClasses) :
                            Contains(ToLower(input), ToLower(<<DeserBlockedClasses[i]>>))}
             IN  IF hits # {}
                 THEN [blocked |-> TRUE,
                       reason  |-> <<"Blocked class pattern: ",
                                     DeserBlockedClasses[CHOOSE i \in hits :
                                                            \A j \in hits : i <= j]>>]
                 ELSE [blocked |-> FALSE, reason |-> EmptyStr]
      [] filter = "php_basic" ->
             IF Contains(input, <<"O:">>)
             THEN [blocked |-> TRUE, reason |-> <<"PHP object serialization blocked">>]
             ELSE [blocked |-> FALSE, reason |-> EmptyStr]
      [] filter = "allowlist" ->
             LET allowed == getStringSlice(cfg, "allowed_classes")
             IN  IF Len(allowed) = 0
                 THEN [blocked |-> TRUE, reason |-> <<"No classes in allowlist">>]
                 ELSE IF \E i \in 1..Len(allowed) : Contains(input, <<allowed[i]>>)
                 THEN [blocked |-> FALSE, reason |-> EmptyStr]
                 ELSE [blocked |-> TRUE, reason |-> <<"Class not in allowlist">>]
      [] filter = "blocklist" ->
             LET pats == getStringSlice(cfg, "blocked_patterns")
                 hits == {i \in 1..Len(pats) : Contains(input, <<pats[i]>>)}
             IN  IF hits # {}
                 THEN [blocked |-> TRUE,
                       reason  |-> <<"Blocked pattern: ",
                                     pats[CHOOSE i \in hits : \A j \in hits : i <= j]>>]
                 ELSE [blocked |-> FALSE, reason |-> EmptyStr]
      [] OTHER -> [blocked |-> FALSE, reason |-> EmptyStr]

\* The blocked payload {"error": "blocked", "reason": reason, "blocked": true}
BlockedData(reason) == Data("blocked", TRUE, reason)

Deserialization_Handle(ctx, out) ==
    LET filter == GetConfigString(ctx.config, "filter", "none")
        f      == applyDeserializationFilter(ctx.input, filter, ctx.config)
    IN  IF f.blocked
        THEN Handled(Result(BlockedData(f.reason), EmptyStr, 0, FALSE), <<>>)
        ELSE Handled(NewResult(Data("deserialization", FALSE, ctx.input)), <<>>)

XXEExternalPatterns ==
    <<"system", "public", "file://", "http://", "https://", "ftp://", "php://", "expect://">>

\* applyXXEFilter(input, filter, cfg)
applyXXEFilter(input, filter) ==
    CASE filter = "basic_doctype" ->
             IF Contains(ToLower(input), <<"<!doctype">>)
             THEN [blocked |-> TRUE, reason |-> <<"DOCTYPE declarations are not allowed">>]
             ELSE [blocked |-> FALSE, reason |-> EmptyStr]
      [] filter = "basic_entity" ->
             IF Contains(ToLower(input), <<"<!entity">>)
             THEN [blocked |-> TRUE, reason |-> <<"ENTITY declarations are not allowed">>]
             ELSE [blocked |-> FALSE, reason |-> EmptyStr]
      [] filter = "external_entities" ->
             LET hits == {i \in 1..Len(XXEExternalPatterns) :
                            Contains(ToLower(input), <<XXEExternalPatterns[i]>>)}
             IN  IF hits # {}
                 THEN [blocked |-> TRUE,
                       reason  |-> <<"External entity pattern not allowed: ",
                                     XXEExternalPatterns[CHOOSE i \in hits :
                                                            \A j \in hits : i <= j]>>]
                 ELSE [blocked |-> FALSE, reason |-> EmptyStr]
      [] OTHER -> [blocked |-> FALSE, reason |-> EmptyStr]

XXE_Handle(ctx, out) ==
    LET filter == GetConfigString(ctx.config, "filter", "none")
        f      == applyXXEFilter(ctx.input, filter)
    IN  IF f.blocked
        THEN Handled(Result(BlockedData(f.reason), EmptyStr, 0, FALSE), <<>>)
        ELSE Handled(NewResult(Data("xxe", FALSE, ctx.input)), <<>>)

NoSQLInjection_Handle(ctx, out) ==
    Handled(NewResult(Data("nosql", FALSE, ctx.input)), <<>>)

XSSReflected_Handle(ctx, out) ==
    Handled(Result(Data("reflected", FALSE, ctx.input), EmptyStr, 0, TRUE), <<>>)

\* ------------------------------------------------------------------------
\* Module registry
\* ------------------------------------------------------------------------

\* The modules the init functions register.
RegisteredModules ==
    {"sql_injection", "idor", "path_traversal", "command_injection", "ssrf",
     "insecure_deserialization", "xxe", "nosql_injection", "xss_reflected"}

\* Registry.Get(name) succeeds
RegistryHas(name) == name \in RegisteredModules

\* Info().RequiresSink
RequiresSink(name) ==
    CASE name \in {"sql_injection", "idor"} -> "sqlite"
      [] name = "path_traversal"            -> "filesystem"
      [] name = "command_injection"         -> "command"
      [] name = "ssrf"                      -> "http"
      [] OTHER                              -> ""

\* module.Handle(ctx) of the module registered under name
Handle(name, ctx, out) ==
    CASE name = "sql_injection"            -> SQLInjection_Handle(ctx, out)
      [] name = "idor"                     -> IDOR_Handle(ctx, out)
      [] name = "path_traversal"           -> PathTraversal_Handle(ctx, out)
      [] name = "command_injection"        -> CommandInjection_Handle(ctx, out)
      [] name = "ssrf"                     -> SSRF_Handle(ctx, out)
      [] name = "insecure_deserialization" -> Deserialization_Handle(ctx, out)
      [] name = "xxe"                      -> XXE_Handle(ctx, out)
      [] name = "nosql_injection"          -> NoSQLInjection_Handle(ctx, out)
      [] OTHER                             -> XSSReflected_Handle(ctx, out)

\* ------------------------------------------------------------------------
\* Response renderer
\* ------------------------------------------------------------------------

NoDebug == [message |-> EmptyStr, module |-> "", placement |-> "", param |-> EmptyStr]

\* What reaches the client: the status line and the envelope.
\*   envelope "data"     {data: ...}                  (ResponseData)
\*   envelope "error"    {error: ..., debug: {...}}   (ErrorResponse)
\*   envelope "combined" {data: {results: [...]}}     (CombinedResult in ResponseData)
\*   envelope "mux"      written by the server mux, not by a handler
Response(status, envelope, data, error, debug, results) ==
    [status |-> status, envelope |-> envelope, data |-> data, error |-> error,
     debug |-> debug, results |-> results]

NoResponse == Response(0, "none", NilData, EmptyStr, NoDebug, <<>>)

\* ResponseBuilder.SendWithStatus(w, responseType, statusCode, data)
SendWithStatus(statusCode, data) ==
    Response(statusCode, "data", data, EmptyStr, NoDebug, <<>>)

\* ResponseBuilder.Send(w, responseType, data)
Send(data) == SendWithStatus(200, data)

\* ResponseBuilder.SendError(w, responseType, statusCode, err, debug)
SendError(statusCode, err, debug) ==
    Response(statusCode, "error", NilData, err, debug, <<>>)

\* SendCombined answering with the first status override among the results
SendCombinedFirstStatus(results) ==
    LET set == {i \in 1..Len(results) : results[i].statusCode # 0}
        st  == IF set = {} THEN 200
               ELSE results[CHOOSE i \in set : \A j \in set : i <= j].statusCode
    IN  [SendWithStatus(st, Data("combined", FALSE, EmptyStr))
            EXCEPT !.envelope = "combined", !.results = results]

\* ResponseBuilder.SendCombined(w, responseType, results)
SendCombined(results) ==
    [Send(Data("combined", FALSE, EmptyStr)) EXCEPT !.envelope = "combined",
                                                    !.results = results]

\* ------------------------------------------------------------------------
\* Builder: capability planning and the per-endpoint handler closure
\* ------------------------------------------------------------------------

\* initializeSinks without the check of the files section
initializeSinksTypesOnly(vulns, hasTables, hasFiles) ==
    LET types == {vulns[i].type : i \in 1..Len(vulns)}
    IN  [sqlite     |-> "sql_injection" \in types \/ hasTables,
         filesystem |-> "path_traversal" \in types,
         command    |-> "command_injection" \in types,
         http       |-> "ssrf" \in types]

\* Builder.initializeSinks: which providers the spec makes the builder create
initializeSinks(vulns, hasTables, hasFiles) ==
    LET types == {vulns[i].type : i \in 1..Len(vulns)}
    IN  [sqlite     |-> "sql_injection" \in types \/ hasTables,
         filesystem |-> "path_traversal" \in types \/ hasFiles,
         command    |-> "command_injection" \in types,
         http       |-> "ssrf" \in types]

\* Builder.createSinkContext: the handles of the providers that exist
createSinkContext(sinkManager) == sinkManager

\* server.ModuleResult
ModuleResult(module, param, data, error, statusCode) ==
    [module |-> module, param |-> param, data |-> data, error |-> error,
     statusCode |-> statusCode]

\* Builder.processVulnerability(r, w, extractor, vuln).  Besides the
\* ModuleResult it yields the request as the extraction left it, the provider
\* calls Handle made, and the stage at which the descriptor ended:
\*   "extract_error"    Extract returned an error
\*   "module_not_found" modules.Get returned an error
\*   "handle_error"     Handle returned a transport error
\*   "ok"               Handle returned a result
processVulnerability(req, vuln, sinkManager, out) ==
    LET base(err) == ModuleResult(vuln.type, vuln.param, NilData, err, 0)
        ctx(ex) == [req |-> ex.req, input |-> ex.value, placement |-> vuln.placement,
                    param |-> vuln.param, config |-> vuln.config,
                    sinks |-> createSinkContext(sinkManager)]
        \* from the return of module.Handle on
        handled(ex, h) ==
            IF h.terr # EmptyStr
            THEN [result |-> base(h.terr), req |-> ex.req, stage |-> "handle_error",
                  calls |-> h.calls]
            ELSE [result |-> ModuleResult(vuln.type, vuln.param,
                                IF h.res.raw THEN Data("raw", FALSE, h.res.data.detail)
                                ELSE h.res.data,
                                h.res.error, h.res.status),
                  req |-> ex.req, stage |-> "ok", calls |-> h.calls]
        \* from the return of extractor.Extract on
        extracted(ex) ==
            IF ex.err # EmptyStr
            THEN [result |-> base(ex.err), req |-> ex.req, stage |-> "extract_error",
                  calls |-> <<>>]
            ELSE IF ~RegistryHas(vuln.type)
            THEN [result |-> base(<<"module not found: ", vuln.type>>), req |-> ex.req,
                  stage |-> "module_not_found", calls |-> <<>>]
            ELSE handled(ex, Handle(vuln.type, ctx(ex), out))
    IN  extracted(Extract(req, vuln.placement, vuln.param))

\* The loop leaving at the first descriptor that fails
RECURSIVE ProcessFromAbort(_, _, _, _, _)
ProcessFromAbort(vulns, i, req, sinkManager, outs) ==
    IF i > Len(vulns)
    THEN [results |-> <<>>, req |-> req, order |-> <<>>, stage |-> <<>>, calls |-> <<>>]
    ELSE LET append(one, rest) ==
                 [results |-> <<one.result>> \o rest.results,
                  req     |-> rest.req,
                  order   |-> <<i>> \o rest.order,
                  stage   |-> <<one.stage>> \o rest.stage,
                  calls   |-> <<one.calls>> \o rest.calls]
             iterate(one) ==
                 append(one,
                        IF one.stage = "ok"
                        THEN ProcessFromAbort(vulns, i + 1, one.req, sinkManager, outs)
                        ELSE [results |-> <<>>, req |-> one.req, order |-> <<>>,
                              stage |-> <<>>, calls |-> <<>>])
         IN  iterate(processVulnerability(req, vulns[i], sinkManager, outs[i]))

\* The loop of the handler closure over endpoint.Vulnerabilities, from
\* descriptor i on.  order lists the descriptors in the order processed.
RECURSIVE ProcessFrom(_, _, _, _, _)
ProcessFrom(vulns, i, req, sinkManager, outs) ==
    IF i > Len(vulns)
    THEN [results |-> <<>>, req |-> req, order |-> <<>>, stage |-> <<>>, calls |-> <<>>]
    ELSE LET \* results = append(results, result)
             append(one, rest) ==
                 [results |-> <<one.result>> \o rest.results,
                  req     |-> rest.req,
                  order   |-> <<i>> \o rest.order,
                  stage   |-> <<one.stage>> \o rest.stage,
                  calls   |-> <<one.calls>> \o rest.calls]
             iterate(one) ==
                 append(one, ProcessFrom(vulns, i + 1, one.req, sinkManager, outs))
         IN  iterate(processVulnerability(req, vulns[i], sinkManager, outs[i]))

\* RenderSingle without the defaulting of an error's status to 500
RenderSingleKeepStatus(result, placement) ==
    LET statusCode == IF result.statusCode = 0 THEN 200 ELSE result.statusCode
    IN  IF result.error # EmptyStr
        THEN SendError(statusCode, result.error,
                       [message |-> result.error, module |-> result.module,
                        placement |-> placement, param |-> result.param])
        ELSE SendWithStatus(statusCode, result.data)

\* The rendering at the end of the handler closure, for a single result
RenderSingle(result, placement) ==
    LET statusCode == IF result.statusCode = 0 THEN 200 ELSE result.statusCode
    IN  IF result.error # EmptyStr
        THEN SendError(IF statusCode = 200 THEN 500 ELSE statusCode,
                       result.error,
                       [message |-> result.error, module |-> result.module,
                        placement |-> placement, param |-> result.param])
        ELSE SendWithStatus(statusCode, result.data)

\* Builder.createHandler(endpoint, responseType): the closure applied to a request
createHandler(endpoint, req, sinkManager, outs) ==
    LET \* from the end of the loop over the vulnerabilities on
        render(run) ==
            [response |-> IF Len(run.results) = 1
                          THEN RenderSingle(run.results[1], endpoint.vulns[1].placement)
                          ELSE SendCombined(run.results),
             req |-> run.req, results |-> run.results, order |-> run.order,
             stage |-> run.stage, calls |-> run.calls]
    IN  IF Len(endpoint.vulns) = 0
        THEN [response |-> Send(Data("hello", FALSE, EmptyStr)), req |-> req,
              results |-> <<>>, order |-> <<>>, stage |-> <<>>, calls |-> <<>>]
        ELSE render(ProcessFrom(endpoint.vulns, 1, req, sinkManager, outs))

\* ------------------------------------------------------------------------
\* Router
\* ------------------------------------------------------------------------

\* The first part of Router.ServeHTTP: for POST/PUT/PATCH the body is read
\* once, kept for the logger, and r.Body is replaced by a fresh reader over
\* the bytes read.
RouterDeliver(req) ==
    IF req.method \in BodyMethods
    THEN LET rd == ReadAll(req)
         IN  [rd.req EXCEPT !.body = rd.bytes, !.bodyRead = FALSE]
    ELSE req

\* Router.ServeHTTP up to the response: the mux runs the handler registered
\* for the request's method, or answers 405 itself.
ServeMux(endpoint, req, sinkManager, outs) ==
    IF req.method = endpoint.method
    THEN createHandler(endpoint, RouterDeliver(req), sinkManager, outs)
    ELSE [response |-> Response(405, "mux", NilData, EmptyStr, NoDebug, <<>>),
          req |-> RouterDeliver(req), results |-> <<>>, order |-> <<>>, stage |-> <<>>,
          calls |-> <<>>]

\* ------------------------------------------------------------------------
\* The specs and requests the model explores
\* ------------------------------------------------------------------------

ParamA  == <<"a">>
ParamUN == <<"u", ".", "n">>
ParamUX == <<"u", ".", "x">>

VNum     == <<"7">>
VMissing == <<"42">>
VWord    == <<"abc">>
VPhp     == <<"O:", "4", ":", "Evil">>
VLocal   == <<"http://", "localhost">>
VRemote  == <<"HTTP://", "example.com">>
VDoctype == <<"<!DOCTYPE", "x">>

Values == {VNum, VMissing, VWord, VPhp, VLocal, VRemote, VDoctype}

Template == <<"SELECT * FROM users WHERE id = ", "{input}">>

Descriptor(type, placement, param, config) ==
    [type |-> type, placement |-> placement, param |-> param, config |-> config]

\* Descriptors that are combined on endpoints with several vulnerabilities.
CoreDescriptors ==
    { Descriptor("nosql_injection", "json_field", ParamUN, NoConfig),
      Descriptor("xss_reflected", "json_field", ParamUX, NoConfig),
      Descriptor("idor", "query_param", ParamA,
                 [variant |-> "numeric", query_template |-> Template]),
      Descriptor("sql_injection", "form_field", ParamA, NoConfig),
      Descriptor("path_traversal", "multipart-form", ParamA, NoConfig),
      Descriptor("no_such_module", "header", ParamA, NoConfig),
      Descriptor("nosql_injection", "body", ParamA, NoConfig) }

\* Descriptors of endpoints with one vulnerability.
Descriptors ==
    CoreDescriptors \cup
    { Descriptor("sql_injection", "query_param", ParamA,
                 [query_template |-> Template, show_errors |-> TRUE]),
      Descriptor("sql_injection", "query_param", ParamA,
                 [query_template |-> Template, show_errors |-> FALSE]),
      Descriptor("sql_injection", "query_param", ParamA,
                 [query_template |-> Template, variant |-> "blind_boolean"]),
      Descriptor("idor", "query_param", ParamA,
                 [variant |-> "numeric", query_template |-> Template,
                  show_errors |-> FALSE]),
      Descriptor("idor", "query_param", ParamA,
                 [variant |-> "uuid", query_template |-> Template]),
      Descriptor("idor", "query_param", ParamA,
                 [query_template |-> Template, access_control |-> "weak_header"]),
      Descriptor("path_traversal", "query_param", ParamA, [filter |-> "basic_dots"]),
      Descriptor("command_injection", "query_param", ParamA, [filter |-> "basic_pipe"]),
      Descriptor("ssrf", "query_param", ParamA, NoConfig),
      Descriptor("ssrf", "query_param", ParamA, [filter |-> "basic_host"]),
      Descriptor("ssrf", "query_param", ParamA, [filter |-> "scheme_only"]),
      Descriptor("insecure_deserialization", "query_param", ParamA, NoConfig),
      Descriptor("insecure_deserialization", "query_param", ParamA,
                 [filter |-> "php_basic"]),
      Descriptor("insecure_deserialization", "query_param", ParamA,
                 [filter |-> "allowlist"]),
      Descriptor("xxe", "query_param", ParamA, [filter |-> "basic_doctype"]),
      Descriptor("xxe", "query_param", ParamA, [filter |-> "external_entities"]),
      Descriptor("nosql_injection", "query_param", ParamA, NoConfig),
      Descriptor("nosql_injection", "form_field", ParamA, NoConfig),
      Descriptor("nosql_injection", "multipart-form", ParamA, NoConfig),
      Descriptor("nosql_injection", "header", ParamA, NoConfig),
      Descriptor("nosql_injection", "cookie", ParamA, NoConfig),
      Descriptor("nosql_injection", "path_param", ParamA, NoConfig),
      Descriptor("nosql_injection", "json_field", ParamA, NoConfig) }

\* endpoint.Vulnerabilities of the endpoints with at most one vulnerability
VulnLists == {<<>>} \cup {<<d>> : d \in Descriptors}

\* endpoint.Vulnerabilities of the endpoints with several vulnerabilities
CombinedVulnLists == UNION {[1..n -> CoreDescriptors] : n \in 2..MaxVulns}

Methods == {"GET", "POST"}

\* The endpoints explored, each the only endpoint of its spec; hasTables and
\* hasFiles tell whether the spec has data.tables / data.files.  Endpoints
\* with several vulnerabilities take POST, the method that carries a body.
Endpoints ==
    {[method |-> m, vulns |-> vs, hasTables |-> t, hasFiles |-> f] :
        m \in Methods, vs \in VulnLists, t \in BOOLEAN, f \in BOOLEAN}
    \cup {[method |-> "POST", vulns |-> vs, hasTables |-> t, hasFiles |-> FALSE] :
             vs \in CombinedVulnLists, t \in BOOLEAN}

Request(method, media, boundary, body, query, header, cookie, path) ==
    [method |-> method, media |-> media, boundary |-> boundary, body |-> body,
     bodyRead |-> FALSE, query |-> query, header |-> header, cookie |-> cookie,
     path |-> path, formParsed |-> FALSE, form |-> <<>>]

Doc1 == JObj(<< <<ParamA, JStr(VWord)>>,
                <<<<"u">>, JObj(<< <<<<"n">>, JNum(7)>>, <<<<"x">>, JStr(VPhp)>> >>)>> >>)
Doc2 == JObj(<< <<ParamA, JObj(<< <<<<"k">>, JBool(TRUE)>> >>)>>,
                <<<<"u">>, JStr(VWord)>> >>)
DocArray == JStr(VWord)

Requests ==
    {Request("GET", "", "", EmptyBody, <<>>, <<>>, <<>>, <<>>)}
    \cup {Request("GET", "", "", EmptyBody, << <<ParamA, v>> >>, <<>>, <<>>, <<>>) :
             v \in Values}
    \cup {Request("GET", "", "", EmptyBody, <<>>, << <<ParamA, v>> >>, <<>>, <<>>) :
             v \in {VNum, VWord}}
    \cup {Request("GET", "", "", EmptyBody, <<>>, <<>>, << <<ParamA, v>> >>, <<>>) :
             v \in {VNum, <<"%27", "abc">>, <<"%zz">>}}
    \cup {Request("GET", "", "", EmptyBody, <<>>, <<>>, <<>>, << <<ParamA, v>> >>) :
             v \in {VNum, VWord}}
    \cup {Request("GET", "", "", EmptyBody, << <<ParamA, VNum>> >>,
                  << <<<<"X-User-ID">>, <<"101">>>> >>, <<>>, <<>>)}
    \cup {Request("POST", "application/json", "", b, q, <<>>, <<>>, <<>>) :
             b \in {JSONBody(Doc1), JSONBody(Doc2), JSONBody(DocArray), JSONBody(JNull),
                    TextBody, EmptyBody},
             q \in {<<>>, << <<ParamA, VNum>> >>}}
    \cup {Request("POST", "application/x-www-form-urlencoded", "",
                  FormBody(prs), <<>>, <<>>, <<>>, <<>>) :
             prs \in {<< <<ParamA, VNum>> >>, << <<ParamA, VWord>> >>,
                      << <<ParamA, <<"%27", "abc">>>>, <<ParamUN, VNum>> >>,
                      << <<ParamA, VNum>>, <<ParamUN, <<"%zz">>>> >>}}
    \cup {Request("POST", "multipart/form-data", bd, MultipartBody("XX", parts, closed),
                  <<>>, <<>>, <<>>, <<>>) :
             bd \in {"XX", "YY", ""},
             parts \in {<< <<ParamA, VWord>>, <<ParamUN, VNum>> >>, << <<ParamUN, VNum>> >>},
             closed \in BOOLEAN}
    \cup {Request("POST", "application/json", "",
                  MultipartBody("XX", << <<ParamA, VWord>> >>, TRUE),
                  <<>>, <<>>, <<>>, <<>>)}

\* ------------------------------------------------------------------------
\* State
\* ------------------------------------------------------------------------

VARIABLES
    endpoint,       \* the endpoint of the spec the server was built from
    sinkManager,    \* Builder.sinks: which providers exist
    phase,          \* "idle": waiting for a request; "served": response written
    arrived,        \* the request as it arrived
    request,        \* the request as the handler left it
    response,       \* what was written to the client
    results,        \* the handler's ModuleResult list
    order,          \* descriptors in the order the handler processed them
    stage,          \* per descriptor: the stage at which its processing ended
    providerCalls,  \* per descriptor: the provider calls its Handle made
    xphase,         \* extractor harness: "off", "arrived", "delivered"
    xreq,           \* extractor harness: the request the extractor works on
    xlog,           \* extractor harness: the Extract calls made and what they returned
    hasLogger,      \* Server.logger # nil
    fileOpen,       \* Logger.file is open
    conns,          \* per connection: where its request is in Router.ServeHTTP
    stopPc,         \* where Server.Stop is
    logFile,        \* connections whose entry LogRequest wrote to the file
    logFailed,      \* connections whose LogRequest returned an error
    mainPc,         \* where main's shutdown sequence is after srv.Stop
    closed,         \* providers on which Close() has been called
    closeErrs,      \* providers whose Close() error Builder.Close reported
    modules,        \* Registry.modules of a registry under test: name -> module
    lastReg,        \* the last Register call: its module, its error, the map before
    probe,          \* the arguments a pure function is called with
    probeLog,       \* what its invocations on these arguments returned, in order
    cfgEndpoints,   \* Config.Endpoints of the spec main loaded: method and path
    mux,            \* the router's ServeMux: its patterns, whether it panicked
    buildPc,        \* "off", "loaded", "built", "panic"
    answer,         \* the last request to a declared endpoint and who answered
    filesystems,    \* the Filesystem sinks constructed: base path, constructor, closed
    disk,           \* the directories that exist
    httpSink,       \* the HTTP sink under test: its client and its timeout
    fetchLog,       \* the FetchWithOptions calls made: url, options, what came back
    mu,             \* Registry.mu: the goroutine holding the write lock, the read locks held
    goroutines,     \* per goroutine calling Register: where it is, its module, its error
    reader,         \* the goroutine calling Get: where it is, the name it asks for
    getLog,         \* the Get calls that returned: name, module, error, when it was called
    regBefore       \* Registry.modules before the goroutines started

pipelineVars ==
    <<endpoint, sinkManager, phase, arrived, request, response, results, order,
      stage, providerCalls>>

extractVars == <<xphase, xreq, xlog>>

stopVars == <<hasLogger, fileOpen, conns, stopPc, logFile, logFailed>>

closeVars == <<mainPc, closed, closeErrs>>

regVars == <<modules, lastReg>>

probeVars == <<probe, probeLog>>

buildVars == <<cfgEndpoints, mux, buildPc, answer>>

fsVars == <<filesystems, disk>>

fetchVars == <<httpSink, fetchLog>>

concVars == <<mu, goroutines, reader, getLog, regBefore>>

vars ==
    <<pipelineVars, extractVars, stopVars, closeVars, regVars, probeVars, buildVars, fsVars, fetchVars,
      concVars>>

\* What the actions of one specification leave alone
outsidePipeline ==
    <<extractVars, stopVars, closeVars, regVars, probeVars, buildVars, fsVars, fetchVars,
      concVars>>
outsideExtract ==
    <<pipelineVars, stopVars, closeVars, regVars, probeVars, buildVars, fsVars, fetchVars,
      concVars>>
outsideStop ==
    <<pipelineVars, extractVars, regVars, probeVars, buildVars, fsVars, fetchVars,
      concVars>>
outsideRegistry ==
    <<pipelineVars, extractVars, stopVars, closeVars, probeVars, buildVars, fsVars, fetchVars,
      concVars>>
outsideBuild ==
    <<pipelineVars, extractVars, stopVars, closeVars, regVars, probeVars, fsVars, fetchVars,
      concVars>>
outsideProbe ==
    <<pipelineVars, extractVars, stopVars, closeVars, regVars, buildVars, fsVars, fetchVars,
      concVars>>
outsideConcurrent ==
    <<pipelineVars, extractVars, stopVars, closeVars, probeVars,
      buildVars, fsVars, fetchVars>>
outsideFetch ==
    <<pipelineVars, extractVars, stopVars, closeVars, regVars, probeVars, buildVars, fsVars,
      concVars>>
outsideFilesystem ==
    <<pipelineVars, extractVars, stopVars, closeVars, regVars, probeVars, buildVars, fetchVars,
      concVars>>

NoRequest == Request("", "", "", EmptyBody, <<>>, <<>>, <<>>, <<>>)

\* Builder.Build on a spec with one endpoint
Build(e) ==
    /\ endpoint = e
    /\ sinkManager = initializeSinks(e.vulns, e.hasTables, e.hasFiles)

\* The pipeline before a request: nothing arrived, nothing written
PipelineIdle ==
    /\ phase = "idle"
    /\ arrived = NoRequest
    /\ request = NoRequest
    /\ response = NoResponse
    /\ results = <<>>
    /\ order = <<>>
    /\ stage = <<>>
    /\ providerCalls = <<>>

\* No handler is calling the extractor on its own
ExtractOff ==
    /\ xphase = "off"
    /\ xreq = NoRequest
    /\ xlog = <<>>

\* server.New without a log file, no connection, Stop not called
StopOff ==
    /\ hasLogger = FALSE
    /\ fileOpen = FALSE
    /\ conns = [c \in 1..MaxInflight |-> "none"]
    /\ stopPc = "running"
    /\ logFile = {}
    /\ logFailed = {}
    /\ mainPc = "serving"
    /\ closed = {}
    /\ closeErrs = {}

\* A registry under test that nothing was registered in
NoRegisterCall == [called |-> FALSE]

RegistryOff ==
    /\ modules = <<>>
    /\ lastReg = NoRegisterCall

\* No pure function is being called on its own
ProbeOff ==
    /\ probe = <<>>
    /\ probeLog = <<>>

\* No spec is being built on its own
BuildOff ==
    /\ cfgEndpoints = <<>>
    /\ mux = <<>>
    /\ buildPc = "off"
    /\ answer = <<>>

\* No filesystem sink is under test
FilesystemOff ==
    /\ filesystems = <<>>
    /\ disk = {}

\* No HTTP sink is under test
FetchOff ==
    /\ httpSink = <<>>
    /\ fetchLog = <<>>

\* No goroutines are registering concurrently
ConcurrentOff ==
    /\ mu = <<>>
    /\ goroutines = <<>>
    /\ reader = <<>>
    /\ getLog = <<>>
    /\ regBefore = <<>>

Init ==
    /\ ConcurrentOff
    /\ FetchOff
    /\ FilesystemOff
    /\ \E e \in Endpoints : Build(e)
    /\ ExtractOff
    /\ StopOff
    /\ RegistryOff
    /\ ProbeOff
    /\ BuildOff
    /\ phase = "idle"
    /\ arrived = NoRequest
    /\ request = NoRequest
    /\ response = NoResponse
    /\ results = <<>>
    /\ order = <<>>
    /\ stage = <<>>
    /\ providerCalls = <<>>

\* Outcomes of the provider calls of one request: one per descriptor whose
\* module uses a provider.
OutcomeChoices(vulns) ==
    {outs \in [1..Len(vulns) -> Outcomes] :
        \A i \in 1..Len(vulns) : RequiresSink(vulns[i].type) = "" => outs[i] = "rows"}

\* Router.ServeHTTP: one request, from arrival to the written response
ServeHTTP ==
    /\ phase = "idle"
    /\ \E req \in Requests, outs \in OutcomeChoices(endpoint.vulns) :
          \E served \in {ServeMux(endpoint, req, sinkManager, outs)} :
              /\ arrived' = req
              /\ request' = served.req
              /\ response' = served.response
              /\ results' = served.results
              /\ order' = served.order
              /\ stage' = served.stage
              /\ providerCalls' = served.calls
    /\ phase' = "served"
    /\ UNCHANGED <<endpoint, sinkManager, outsidePipeline>>

\* The connection is ready for the next request
NextRequest ==
    /\ phase = "served"
    /\ phase' = "idle"
    /\ arrived' = NoRequest
    /\ request' = NoRequest
    /\ response' = NoResponse
    /\ results' = <<>>
    /\ order' = <<>>
    /\ stage' = <<>>
    /\ providerCalls' = <<>>
    /\ UNCHANGED <<endpoint, sinkManager, outsidePipeline>>

Next == ServeHTTP \/ NextRequest

Spec == Init /\ [][Next]_vars

\* ------------------------------------------------------------------------
\* Properties of the request pipeline
\* ------------------------------------------------------------------------

\* The endpoint's handler closure ran for the request and wrote the response.
HandlerRan == phase = "served" /\ arrived.method = endpoint.method

\* The endpoint declares exactly one vulnerability and its handler ran.
SingleRan == HandlerRan /\ Len(endpoint.vulns) = 1

\* The endpoint declares several vulnerabilities and its handler ran.
SeveralRan == HandlerRan /\ Len(endpoint.vulns) >= 2

\* The input the extractor hands to the module of a single-vulnerability endpoint
SingleInput ==
    Extract(RouterDeliver(arrived), endpoint.vulns[1].placement,
            endpoint.vulns[1].param).value

\* C1: a POST whose body is a JSON object, on an endpoint with two json_field
\* vulnerabilities on different dot-paths, is answered by a combined response
\* of two sub-results, each without error and each built from the value
\* found in the body at its own path.
C1_TwoJSONFieldsPopulated ==
    (/\ HandlerRan
     /\ Len(endpoint.vulns) = 2
     /\ arrived.method = "POST"
     /\ arrived.body.fmt = "json"
     /\ arrived.body.doc.t = "obj"
     /\ \A i \in 1..2 : endpoint.vulns[i].placement = "json_field"
     /\ endpoint.vulns[1].param # endpoint.vulns[2].param)
    => /\ response.envelope = "combined"
       /\ Len(response.results) = 2
       /\ \A i \in 1..2 :
             /\ response.results[i].error = EmptyStr
             /\ response.results[i].data.detail =
                   navigateJSON(arrived.body.doc, endpoint.vulns[i].param)

\* C3: when the extraction fails for the single vulnerability of an endpoint,
\* the response is the error envelope with HTTP status 400.
C3_ExtractionFailureIs400 ==
    (SingleRan /\ stage[1] = "extract_error")
    => response.envelope = "error" /\ response.status = 400

\* C4: with exactly one vulnerability the response is a function of the
\* sub-result: a non-empty error gives the error envelope at the status the
\* module set, 500 if it set none; an empty error gives the data envelope at
\* the status the module set, 200 if it set none.
C4_SingleStatusFromResult ==
    SingleRan
    => LET r == results[1]
       IN  IF r.error # EmptyStr
           THEN /\ response.envelope = "error"
                /\ response.error = r.error
                /\ response.status = (IF r.statusCode = 0 THEN 500 ELSE r.statusCode)
           ELSE /\ response.envelope = "data"
                /\ response.data = r.data
                /\ response.status = (IF r.statusCode = 0 THEN 200 ELSE r.statusCode)

\* A module error with a status override of 400 reaches the client as the
\* error envelope at 400.
C4_Witness ==
    /\ SingleRan
    /\ results[1].error # EmptyStr
    /\ results[1].statusCode = 400
    /\ response.envelope = "error"
    /\ response.status = 400

\* C5: with n >= 2 vulnerabilities the descriptors are processed in
\* declaration order and the response is the combined list of exactly n
\* sub-results in that order, at status 200 whatever the sub-results hold.
C5_CombinedInOrderAt200 ==
    SeveralRan
    => LET n == Len(endpoint.vulns)
       IN  /\ order = [i \in 1..n |-> i]
           /\ response.envelope = "combined"
           /\ response.status = 200
           /\ Len(response.results) = n
           /\ response.results = results
           /\ \A i \in 1..n :
                 /\ response.results[i].module = endpoint.vulns[i].type
                 /\ response.results[i].param = endpoint.vulns[i].param

\* A combined response at 200 that holds a sub-result with an error and a
\* sub-result with a status override.
C5_Witness ==
    /\ SeveralRan
    /\ response.status = 200
    /\ \E i \in 1..Len(results) : results[i].error # EmptyStr
    /\ \E j \in 1..Len(results) : results[j].statusCode = 404

\* C6: with several vulnerabilities, a descriptor that fails (extraction
\* error, module not registered, Handle returning an error) has a sub-result
\* with a non-empty error, and every descriptor after it is still processed.
C6_FailureDoesNotStopRequest ==
    SeveralRan
    => LET n == Len(endpoint.vulns)
       IN  /\ Len(stage) = n
           /\ Len(results) = n
           /\ \A i \in 1..n :
                 stage[i] # "ok"
                 => /\ results[i].error # EmptyStr
                    /\ \A j \in (i + 1)..n : \E k \in 1..Len(order) : order[k] = j

\* The first descriptor fails, the one after it is handled by its module.
C6_Witness ==
    /\ SeveralRan
    /\ stage[1] \in {"extract_error", "module_not_found", "handle_error"}
    /\ results[1].error # EmptyStr
    /\ stage[2] = "ok"
    /\ results[2].error = EmptyStr

\* C7: whenever the filter of a module that has a rejecting filter option
\* (ssrf, insecure_deserialization, xxe) rejects the input, the response of
\* the single-vulnerability endpoint has status 200 and carries the blocked
\* payload in the data envelope.
C7_FilterRejectionIs200Blocked ==
    (/\ SingleRan
     /\ stage[1] = "ok"
     /\ LET v      == endpoint.vulns[1]
            filter == GetConfigString(v.config, "filter", "none")
        IN  CASE v.type = "ssrf" -> validateURL(SingleInput, filter) # EmptyStr
              [] v.type = "insecure_deserialization" ->
                    applyDeserializationFilter(SingleInput, filter, v.config).blocked
              [] v.type = "xxe" -> applyXXEFilter(SingleInput, filter).blocked
              [] OTHER -> FALSE)
    => /\ response.status = 200
       /\ response.envelope = "data"
       /\ response.data.kind = "blocked"
       /\ response.data.blocked

\* The providers no endpoint of the spec made the builder create.
NoSinks == [sqlite |-> FALSE, filesystem |-> FALSE, command |-> FALSE, http |-> FALSE]

\* C8: a module that needs a capability provider, invoked on a server where
\* that provider was not provisioned, returns a transport error from Handle
\* before any provider call, and the single-vulnerability response is the
\* error envelope at 500.  The first conjunct is the served request; the
\* second hands the request's input and configuration to each of the five
\* provider-backed modules with no provider present.
C8_MissingProviderFailsFast ==
    SingleRan
    => LET v == endpoint.vulns[1]
       IN  /\ (/\ stage[1] \in {"handle_error", "ok"}
               /\ RequiresSink(v.type) # ""
               /\ ~sinkManager[RequiresSink(v.type)])
              => /\ stage[1] = "handle_error"
                 /\ providerCalls[1] = <<>>
                 /\ response.envelope = "error"
                 /\ response.status = 500
           /\ \A name \in {m \in RegisteredModules : RequiresSink(m) # ""},
                 out \in Outcomes :
                 LET ctx == [req |-> request, input |-> SingleInput,
                             placement |-> v.placement, param |-> v.param,
                             config |-> v.config, sinks |-> NoSinks]
                     h   == Handle(name, ctx, out)
                 IN  /\ h.terr # EmptyStr
                     /\ h.calls = <<>>
                     /\ RenderSingle(ModuleResult(name, v.param, NilData, h.terr, 0),
                                     v.placement).status = 500

\* An idor endpoint of a spec without tables: the module is invoked, no
\* sqlite provider exists, and the client gets 500.
C8_Witness ==
    /\ SingleRan
    /\ endpoint.vulns[1].type = "idor"
    /\ ~sinkManager.sqlite
    /\ stage[1] = "handle_error"
    /\ providerCalls[1] = <<>>
    /\ response.status = 500

\* C9: the idor module with variant numeric answers an input that is not a
\* valid integer with status 400, whatever show_errors is.  The endpoint is
\* otherwise well configured: sqlite exists and query_template is set.
C9_IDORNumericInvalidIs400 ==
    (/\ SingleRan
     /\ endpoint.vulns[1].type = "idor"
     /\ GetConfigString(endpoint.vulns[1].config, "variant", "numeric") = "numeric"
     /\ "query_template" \in DOMAIN endpoint.vulns[1].config
     /\ sinkManager.sqlite
     /\ stage[1] = "ok"
     /\ ~AtoiOk(SingleInput))
    => response.status = 400

\* ------------------------------------------------------------------------
\* The extractor called repeatedly on one request
\* ------------------------------------------------------------------------

MaxExtracts == 2

\* A spec whose only endpoint declares no vulnerability
BareEndpoint == [method |-> "GET", vulns |-> <<>>, hasTables |-> FALSE, hasFiles |-> FALSE]

\* The placements Extract knows
Placements ==
    {"query_param", "path_param", "header", "cookie", "form_field", "json_field",
     "multipart-form"}

Params == {ParamA, ParamUN}

InitExtract ==
    /\ ConcurrentOff
    /\ FetchOff
    /\ FilesystemOff
    /\ Build(BareEndpoint)
    /\ PipelineIdle
    /\ StopOff
    /\ RegistryOff
    /\ ProbeOff
    /\ BuildOff
    /\ xphase = "arrived"
    /\ xreq \in Requests
    /\ xlog = <<>>

\* Router.ServeHTTP up to the call of the handler
Deliver ==
    /\ xphase = "arrived"
    /\ xphase' = "delivered"
    /\ xreq' = RouterDeliver(xreq)
    /\ UNCHANGED <<xlog, outsideExtract>>

\* A handler calls Extractor.Extract on the request it was given
ExtractCall ==
    /\ xphase = "delivered"
    /\ Len(xlog) < MaxExtracts
    /\ \E placement \in Placements, param \in Params :
          LET ex == Extract(xreq, placement, param)
          IN  /\ xreq' = ex.req
              /\ xlog' = Append(xlog, [placement |-> placement, param |-> param,
                                       value |-> ex.value, err |-> ex.err])
    /\ UNCHANGED <<xphase, outsideExtract>>

NextExtract == Deliver \/ ExtractCall

SpecExtract == InitExtract /\ [][NextExtract]_vars

\* C2: for each of the seven placements and every param, two Extract calls on
\* the request the router delivered return the same value and the same error
\* outcome.
C2_ExtractTwiceSame ==
    \A i \in 1..Len(xlog), j \in 1..Len(xlog) :
        (i < j /\ xlog[i].placement = xlog[j].placement /\ xlog[i].param = xlog[j].param)
        => /\ xlog[i].value = xlog[j].value
           /\ (xlog[i].err = EmptyStr) <=> (xlog[j].err = EmptyStr)

\* ------------------------------------------------------------------------
\* Server.Stop against requests in flight
\* ------------------------------------------------------------------------

\* The specs main serves here: one GET endpoint with at most one vulnerability
StopEndpoints == {e \in Endpoints : e.method = "GET" /\ Len(e.vulns) <= 1}

\* The providers Builder.initializeSinks created
Provisioned(sm) == {p \in {"sqlite", "filesystem", "command", "http"} : sm[p]}

InitStop ==
    /\ ConcurrentOff
    /\ FetchOff
    /\ FilesystemOff
    /\ \E e \in StopEndpoints : Build(e)
    /\ PipelineIdle
    /\ ExtractOff
    /\ RegistryOff
    /\ ProbeOff
    /\ BuildOff
    /\ hasLogger \in BOOLEAN
    /\ fileOpen = hasLogger
    /\ conns = [c \in 1..MaxInflight |-> "none"]
    /\ stopPc = "running"
    /\ logFile = {}
    /\ logFailed = {}
    /\ mainPc = "serving"
    /\ closed = {}
    /\ closeErrs = {}

Active(c) == conns[c] \in {"handling", "logging"}

\* The http.Server accepts a connection and calls Router.ServeHTTP, which
\* hands the request to the mux
Accept(c) ==
    /\ stopPc = "running"
    /\ conns[c] = "none"
    /\ conns' = [conns EXCEPT ![c] = "handling"]
    /\ UNCHANGED <<hasLogger, fileOpen, stopPc, logFile, logFailed, closeVars, outsideStop>>

\* r.mux.ServeHTTP returns: the response is written; with a logger the
\* request still has LogRequest ahead, without one ServeHTTP returns
MuxDone(c) ==
    /\ conns[c] = "handling"
    /\ conns' = [conns EXCEPT ![c] = IF hasLogger THEN "logging" ELSE "done"]
    /\ UNCHANGED <<hasLogger, fileOpen, stopPc, logFile, logFailed, closeVars, outsideStop>>

\* Logger.LogRequest: the entry is encoded to the file; the write fails on a
\* closed file and ServeHTTP logs a warning.  Then ServeHTTP returns.
LogRequest(c) ==
    /\ conns[c] = "logging"
    /\ conns' = [conns EXCEPT ![c] = "done"]
    /\ IF fileOpen
       THEN logFile' = logFile \cup {c} /\ UNCHANGED logFailed
       ELSE logFailed' = logFailed \cup {c} /\ UNCHANGED logFile
    /\ UNCHANGED <<hasLogger, fileOpen, stopPc, closeVars, outsideStop>>

\* Server.Stop up to the wait inside http.Server.Shutdown: the logger is
\* closed if there is one, then Shutdown closes the listeners and waits
Stop ==
    /\ stopPc = "running"
    /\ fileOpen' = FALSE
    /\ stopPc' = "waiting"
    /\ UNCHANGED <<hasLogger, conns, logFile, logFailed, closeVars, outsideStop>>

\* Shutdown returns nil: no request is in flight any more
ShutdownReturn ==
    /\ stopPc = "waiting"
    /\ \A c \in 1..MaxInflight : ~Active(c)
    /\ stopPc' = "stopped"
    /\ UNCHANGED <<hasLogger, fileOpen, conns, logFile, logFailed, closeVars, outsideStop>>

\* Shutdown returns the context's error: the deadline passed with requests
\* still in flight
ShutdownDeadline ==
    /\ stopPc = "waiting"
    /\ \E c \in 1..MaxInflight : Active(c)
    /\ stopPc' = "deadline"
    /\ UNCHANGED <<hasLogger, fileOpen, conns, logFile, logFailed, closeVars, outsideStop>>

\* Builder.Close: Close() on the sqlite and the filesystem provider if they
\* exist; the errors they return are joined into one error
Builder_Close(sm, fails) ==
    [closed |-> Provisioned(sm) \cap {"sqlite", "filesystem"},
     errs   |-> fails \cap Provisioned(sm) \cap {"sqlite", "filesystem"}]

\* main after srv.Stop returned nil: b.Close(), a warning if it fails, return
MainCleanup ==
    /\ mainPc = "serving"
    /\ stopPc = "stopped"
    /\ \E fails \in SUBSET {"sqlite", "filesystem"} :
          /\ closed' = Builder_Close(sinkManager, fails).closed
          /\ closeErrs' = Builder_Close(sinkManager, fails).errs
    /\ mainPc' = "exited"
    /\ UNCHANGED <<stopVars, outsideStop>>

\* main after srv.Stop returned an error: log.Fatalf ends the process
MainFatal ==
    /\ mainPc = "serving"
    /\ stopPc = "deadline"
    /\ mainPc' = "fatal"
    /\ UNCHANGED <<closed, closeErrs, stopVars, outsideStop>>

NextStop ==
    \/ \E c \in 1..MaxInflight : Accept(c) \/ MuxDone(c) \/ LogRequest(c)
    \/ Stop
    \/ ShutdownReturn
    \/ ShutdownDeadline
    \/ MainCleanup
    \/ MainFatal

SpecStop == InitStop /\ [][NextStop]_vars

\* C10: Stop closes the request logger only after the graceful shutdown has
\* finished waiting for the requests in flight: the logger is never closed
\* while a request is in flight, and every request that completes on a
\* server with a logger has its entry written to the file.
C10_LoggerClosedAfterShutdownWait ==
    hasLogger
    => /\ ~fileOpen => \A c \in 1..MaxInflight : ~Active(c)
       /\ \A c \in 1..MaxInflight : conns[c] = "done" => c \in logFile

\* ------------------------------------------------------------------------
\* The module registry
\* ------------------------------------------------------------------------

MaxVersions == 2

\* The names the modules under test report in Info().Name
ModuleNames == {EmptyStr, <<"module_a">>, <<"module_b">>, <<"duplicate_module">>}

\* Modules: two modules are different objects when their versions differ
Modules == [name : ModuleNames, version : 1..MaxVersions]

\* Register without the duplicate check: the later module replaces the earlier
Registry_RegisterOverwrite(mods, module) ==
    IF module.name = EmptyStr
    THEN [modules |-> mods, err |-> "module name cannot be empty"]
    ELSE [modules |-> [n \in DOMAIN mods \cup {module.name} |->
                          IF n = module.name THEN module ELSE mods[n]],
          err |-> ""]

\* Registry.Register(module): the map afterwards and the error returned
Registry_Register(mods, module) ==
    IF module.name = EmptyStr
    THEN [modules |-> mods, err |-> "module name cannot be empty"]
    ELSE IF module.name \in DOMAIN mods
    THEN [modules |-> mods, err |-> "module is already registered"]
    ELSE [modules |-> [n \in DOMAIN mods \cup {module.name} |->
                          IF n = module.name THEN module ELSE mods[n]],
          err |-> ""]

\* Registry.Get(name): the module and the error returned
Registry_Get(mods, name) ==
    IF name \in DOMAIN mods
    THEN [module |-> mods[name], err |-> ""]
    ELSE [module |-> [name |-> EmptyStr, version |-> 0], err |-> "module not found"]

InitRegistry ==
    /\ ConcurrentOff
    /\ FetchOff
    /\ FilesystemOff
    /\ Build(BareEndpoint)
    /\ PipelineIdle
    /\ ExtractOff
    /\ StopOff
    /\ ProbeOff
    /\ BuildOff
    /\ modules = <<>>
    /\ lastReg = NoRegisterCall

\* A caller registers a module
Register ==
    /\ \E module \in Modules :
          /\ modules' = Registry_Register(modules, module).modules
          /\ lastReg' = [called |-> TRUE, module |-> module, before |-> modules,
                         err |-> Registry_Register(modules, module).err]
    /\ UNCHANGED outsideRegistry

NextRegistry == Register

SpecRegistry == InitRegistry /\ [][NextRegistry]_vars

\* C12: Register(m) returns an error exactly when m's name is empty or the
\* name is already registered; otherwise it succeeds and afterwards Get of
\* the name returns m.
C12_RegisterErrorIffEmptyOrDuplicate ==
    lastReg.called
    => /\ (lastReg.err # "") <=>
            (lastReg.module.name = EmptyStr \/ lastReg.module.name \in DOMAIN lastReg.before)
       /\ lastReg.err = ""
            => Registry_Get(modules, lastReg.module.name) = [module |-> lastReg.module, err |-> ""]

\* A second module with a registered name was refused and the first is kept
C12_Witness ==
    /\ lastReg.called
    /\ lastReg.err = "module is already registered"
    /\ lastReg.module.name \in DOMAIN modules
    /\ modules[lastReg.module.name] # lastReg.module

\* ------------------------------------------------------------------------
\* Insecure deserialization: format detection and gadget chains
\* ------------------------------------------------------------------------

MaxData == 2
MaxInvocations == 2

\* The words the payloads are made of.  A payload is a sequence of words
\* separated by blanks, so no pattern spans two words.
DeserWords ==
    {"org.hibernate", "org.jboss", "groovy.util", "O:4:\"User\"", "__reduce__",
     "cos_NL_system", "System.Diagnostics.Process", "System.Runtime.Remoting",
     "System.IO.FileInfo", "Version=", "hello", "whoami"}

\* The patterns of the module's tables that occur in a word
Occurs(w) ==
    CASE w = "org.hibernate"              -> {"org.hibernate"}
      [] w = "org.jboss"                  -> {"org.jboss"}
      [] w = "groovy.util"                -> {"groovy.util"}
      [] w = "O:4:\"User\""               -> {"O:", "\""}
      [] w = "__reduce__"                 -> {"__reduce__"}
      [] w = "cos_NL_system"              -> {"cos_NL_system", "cos_NL_", "system"}
      [] w = "System.Diagnostics.Process" -> {"System.", "System.Diagnostics.Process"}
      [] w = "System.Runtime.Remoting"    -> {"System.", "System.Runtime.Remoting"}
      [] w = "System.IO.FileInfo"         -> {"System.", "System.IO.FileInfo"}
      [] w = "Version="                   -> {"Version="}
      [] OTHER                            -> {}

\* strings.Contains(data, pattern) for a pattern of the tables
ContainsPattern(data, pattern) == \E i \in 1..Len(data) : pattern \in Occurs(data[i])

\* strings.HasPrefix(data, pattern) for a pattern of the tables
HasPrefixPattern(data, pattern) ==
    /\ Len(data) > 0
    /\ \/ data[1] = pattern
       \/ data[1] = "cos_NL_system" /\ pattern = "cos_NL_"

\* The four tests of detectSerializationFormat, one per format
MatchesJava(data) ==
    \E f \in {"\\xac\\xed", "org.apache.commons.collections", "ysoserial",
              "java.lang.Runtime", "java.io.ObjectInputStream", "org.springframework",
              "com.sun.org.apache", "org.hibernate", "com.mchange.v2.c3p0", "org.jboss",
              "bsh.Interpreter", "groovy.util", "rO0AB"} :
        ContainsPattern(data, f)

MatchesPHP(data) ==
    \/ Len(data) > 0 /\ data[1] = "O:4:\"User\""
    \/ ContainsPattern(data, "O:") /\ ContainsPattern(data, "\"")

MatchesPickle(data) ==
    \/ HasPrefixPattern(data, "\\x80")
    \/ HasPrefixPattern(data, "cos_NL_")
    \/ HasPrefixPattern(data, "(dp")
    \/ ContainsPattern(data, "cposix_NL_system")
    \/ ContainsPattern(data, "cos_NL_system")
    \/ ContainsPattern(data, "__reduce__")

MatchesDotNet(data) ==
    \/ HasPrefixPattern(data, "\\x00\\x01\\x00\\x00\\x00")
    \/ ContainsPattern(data, "System.") /\ ContainsPattern(data, "Version=")
    \/ \E f \in {"System.Windows.Data.ObjectDataProvider", "System.Diagnostics.Process",
                 "System.Runtime.Remoting", "Microsoft.VisualStudio.Text.Formatting",
                 "System.Security.Claims.ClaimsIdentity", "System.Data.Services.Internal",
                 "System.Configuration.Install.AssemblyInstaller",
                 "System.Activities.Presentation", "System.Windows.ResourceDictionary"} :
          ContainsPattern(data, f)

\* detectSerializationFormat with the PHP tests ahead of the Java tests
detectSerializationFormatPHPFirst(data) ==
    IF MatchesPHP(data) THEN "php"
    ELSE IF MatchesJava(data) THEN "java"
    ELSE IF MatchesPickle(data) THEN "python_pickle"
    ELSE IF MatchesDotNet(data) THEN "dotnet"
    ELSE "unknown"

\* detectSerializationFormat(data)
detectSerializationFormat(data) ==
    IF MatchesJava(data) THEN "java"
    ELSE IF MatchesPHP(data) THEN "php"
    ELSE IF MatchesPickle(data) THEN "python_pickle"
    ELSE IF MatchesDotNet(data) THEN "dotnet"
    ELSE "unknown"

\* The entries of processJavaSerialized's gadgetChains map whose patterns the
\* payloads can contain, in the order the source lists them
JavaGadgetChains ==
    << <<"org.hibernate", "Hibernate">>, <<"org.jboss", "JBoss">>,
       <<"groovy.util", "Groovy">> >>

\* The same for processDotNetSerialized's dangerousPatterns map
DotNetGadgetChains ==
    << <<"System.Diagnostics.Process", "Process.Start">>,
       <<"System.Runtime.Remoting", "Remoting">>,
       <<"System.IO.FileInfo", "FileInfo">> >>

\* The orders in which a range over a map of n entries can visit them
RangeOrders(n) == {o \in [1..n -> 1..n] : \A i, j \in 1..n : o[i] = o[j] => i = j}

\* for pattern, chain := range table { if strings.Contains(data, pattern) {
\* ...; break } }, visiting the entries in the order visit: the chain found,
\* EmptyStr if none
RECURSIVE RangeGadgets(_, _, _, _)
RangeGadgets(table, visit, data, k) ==
    IF k > Len(table) THEN ""
    ELSE IF ContainsPattern(data, table[visit[k]][1]) THEN table[visit[k]][2]
    ELSE RangeGadgets(table, visit, data, k + 1)

\* The command extractCommand's patterns find in a word: the fourth pattern
\* matches whoami as it stands; no other word matches any of the five
CommandIn(w) == IF w = "whoami" THEN "whoami" ELSE ""

\* extractCommand(data): the command of the leftmost match, EmptyStr if none
RECURSIVE extractCommandFrom(_, _)
extractCommandFrom(data, i) ==
    IF i > Len(data) THEN ""
    ELSE IF CommandIn(data[i]) # "" THEN CommandIn(data[i])
    ELSE extractCommandFrom(data, i + 1)

extractCommand(data) == extractCommandFrom(data, 1)

\* processPHPSerialized's dangerousPatterns, a slice ranged over in order
PHPDangerousPatterns ==
    <<"__wakeup", "__destruct", "__toString", "__call", "system", "exec", "shell_exec",
      "passthru", "popen", "proc_open", "eval", "assert", "file_get_contents",
      "file_put_contents", "include", "require", "unserialize", "Guzzle", "Monolog",
      "PHPUnit", "Doctrine", "Symfony">>

\* processPythonPickle's dangerousPatterns
PickleDangerousPatterns ==
    <<"os.system", "subprocess", "commands.getoutput", "cposix_NL_system",
      "cos_NL_system", "__reduce__", "__reduce_ex__", "eval", "exec", "compile",
      "builtins", "__import__">>

\* for _, pattern := range patterns { if strings.Contains(data, pattern) {
\* ...; break } }: the pattern found, EmptyStr if none
RECURSIVE RangePatterns(_, _, _)
RangePatterns(patterns, data, k) ==
    IF k > Len(patterns) THEN ""
    ELSE IF ContainsPattern(data, patterns[k]) THEN patterns[k]
    ELSE RangePatterns(patterns, data, k + 1)

\* &DeserializationResult{} with Format set: the fields the claims are about
DeserializationResult(format) ==
    [format |-> format, detected |-> FALSE, payload_type |-> "", gadget_chain |-> "",
     exploitable |-> FALSE, warning |-> <<>>, simulated_command |-> ""]

\* The body of a pattern loop on a match: found is the chain or the pattern
OnPatternMatch(result, found, chain, payloadType, warning) ==
    IF found = "" THEN result
    ELSE [result EXCEPT !.exploitable = TRUE, !.gadget_chain = chain,
                        !.payload_type = payloadType, !.warning = <<warning, found>>]

\* if emulateExec { cmd := extractCommand(data); if cmd != "" { ... } };
\* only the Java processing sets a warning there
OnCommand(result, data, emulateExec, setsWarning) ==
    IF emulateExec /\ extractCommand(data) # ""
    THEN [result EXCEPT !.simulated_command = extractCommand(data),
                        !.exploitable = TRUE,
                        !.warning = IF setsWarning
                                    THEN <<"Command execution payload detected: ",
                                           extractCommand(data)>>
                                    ELSE @]
    ELSE result

\* if !result.Exploitable { result.Warning = ...; result.PayloadType = ... }
OnNotExploitable(result, warning, payloadType) ==
    IF ~result.exploitable
    THEN [result EXCEPT !.warning = <<warning>>, !.payload_type = payloadType]
    ELSE result

\* processJavaSerialized(result, data, emulateExec); visit is the order in
\* which the runtime ranges over the gadgetChains map
processJavaSerialized(data, emulateExec, visit) ==
    OnNotExploitable(
        OnCommand(
            OnPatternMatch([DeserializationResult("java") EXCEPT !.detected = TRUE],
                           RangeGadgets(JavaGadgetChains, visit, data, 1),
                           RangeGadgets(JavaGadgetChains, visit, data, 1),
                           "gadget_chain", "Dangerous gadget chain detected: "),
            data, emulateExec, TRUE),
        "Java serialized object detected - potential deserialization vulnerability",
        "serialized_object")

\* processPHPSerialized(result, data, emulateExec)
processPHPSerialized(data, emulateExec) ==
    OnNotExploitable(
        OnCommand(
            OnPatternMatch([DeserializationResult("php") EXCEPT !.detected = TRUE],
                           RangePatterns(PHPDangerousPatterns, data, 1), "",
                           "php_object_injection", "Dangerous PHP pattern detected: "),
            data, emulateExec, FALSE),
        "PHP serialized object detected - potential object injection vulnerability",
        "serialized_object")

\* processPythonPickle(result, data, emulateExec)
processPythonPickle(data, emulateExec) ==
    OnNotExploitable(
        OnCommand(
            OnPatternMatch([DeserializationResult("python_pickle") EXCEPT !.detected = TRUE],
                           RangePatterns(PickleDangerousPatterns, data, 1), "",
                           "pickle_rce", "Dangerous pickle pattern detected: "),
            data, emulateExec, FALSE),
        "Python pickle detected - potential code execution vulnerability",
        "pickle_object")

\* processDotNetSerialized(result, data, emulateExec); visit as for Java
processDotNetSerialized(data, emulateExec, visit) ==
    OnNotExploitable(
        OnCommand(
            OnPatternMatch([DeserializationResult("dotnet") EXCEPT !.detected = TRUE],
                           RangeGadgets(DotNetGadgetChains, visit, data, 1),
                           RangeGadgets(DotNetGadgetChains, visit, data, 1),
                           "dotnet_gadget", "Dangerous .NET gadget chain detected: "),
            data, emulateExec, FALSE),
        ".NET serialized object detected - potential deserialization vulnerability",
        "binary_formatter")

\* processSerializedData(input, format, showDecoded, emulateExec): the format
\* is detected or taken as given, then the payload is processed for it.  The
\* base64 decoding ahead of the detection leaves every payload of DeserWords
\* as it is (the other one-word payloads do not decode), except the one-word
\* payload Version=, which matches no pattern before or after.
processSerializedData(input, format, emulateExec, visit) ==
    LET process(detected) ==
            CASE detected = "java"   -> processJavaSerialized(input, emulateExec, visit)
              [] detected = "php"    -> processPHPSerialized(input, emulateExec)
              [] detected = "python_pickle" -> processPythonPickle(input, emulateExec)
              [] detected = "dotnet" -> processDotNetSerialized(input, emulateExec, visit)
              [] OTHER ->
                    [DeserializationResult(detected) EXCEPT
                        !.warning = <<"Unknown or unsupported serialization format">>]
    IN  process(IF format = "auto" THEN detectSerializationFormat(input) ELSE format)

\* Payloads of up to MaxData words
DeserPayloads == UNION {[1..n -> DeserWords] : n \in 0..MaxData}

InitDeser ==
    /\ ConcurrentOff
    /\ FetchOff
    /\ FilesystemOff
    /\ Build(BareEndpoint)
    /\ PipelineIdle
    /\ ExtractOff
    /\ StopOff
    /\ RegistryOff
    /\ BuildOff
    /\ \E input \in DeserPayloads, emulateExec \in BOOLEAN,
          format \in {"auto", "java", "php", "python_pickle", "dotnet", "xml"} :
          probe = [input |-> input, format |-> format, emulateExec |-> emulateExec]
    /\ probeLog = <<>>

\* One more request carries the same payload: Handle calls
\* processSerializedData, the runtime picks the order of the map range (both
\* tables have as many entries)
ProcessSerialized ==
    /\ Len(probeLog) < MaxInvocations
    /\ \E visit \in RangeOrders(Len(JavaGadgetChains)) :
          probeLog' = Append(probeLog,
                processSerializedData(probe.input, probe.format, probe.emulateExec, visit))
    /\ UNCHANGED <<probe, outsideProbe>>

NextDeser == ProcessSerialized

SpecDeser == InitDeser /\ [][NextDeser]_vars

\* The chain of the first entry, in the order the table lists them, whose
\* pattern occurs in the payload
FirstListedChain(table, data) == RangeGadgets(table, [i \in 1..Len(table) |-> i], data, 1)

\* C13: within one format the reported gadget chain is that of the first
\* pattern, in the order the table lists them, that occurs in the payload, and
\* every invocation on the same payload reports the same gadget chain.
C13_GadgetChainFirstListedEveryTime ==
    \A i \in 1..Len(probeLog) :
        /\ probeLog[i].format = "java"
             => probeLog[i].gadget_chain = FirstListedChain(JavaGadgetChains, probe.input)
        /\ probeLog[i].format = "dotnet"
             => probeLog[i].gadget_chain = FirstListedChain(DotNetGadgetChains, probe.input)
        /\ \A j \in 1..Len(probeLog) : probeLog[i].gadget_chain = probeLog[j].gadget_chain

\* C14: with format auto a payload that matches several formats resolves to
\* the earliest of Java, PHP, Python pickle, .NET that it matches, and every
\* invocation on the same payload resolves to the same format.
C14_AutoFormatEarliestInCascade ==
    probe.format = "auto"
    => \A i \in 1..Len(probeLog) :
          /\ MatchesJava(probe.input) => probeLog[i].format = "java"
          /\ (~MatchesJava(probe.input) /\ MatchesPHP(probe.input))
               => probeLog[i].format = "php"
          /\ (~MatchesJava(probe.input) /\ ~MatchesPHP(probe.input)
                /\ MatchesPickle(probe.input))
               => probeLog[i].format = "python_pickle"
          /\ (~MatchesJava(probe.input) /\ ~MatchesPHP(probe.input)
                /\ ~MatchesPickle(probe.input) /\ MatchesDotNet(probe.input))
               => probeLog[i].format = "dotnet"
          /\ \A j \in 1..Len(probeLog) : probeLog[i].format = probeLog[j].format

\* A payload with a Java and a PHP fingerprint was resolved twice
C14_Witness ==
    /\ probe.format = "auto"
    /\ Len(probeLog) = MaxInvocations
    /\ MatchesPHP(probe.input)
    /\ MatchesJava(probe.input)
    /\ probeLog[1].format = "java"

\* Deserialization.Info().ValidVariants
DeserValidVariants ==
    [format |-> <<"auto", "java", "php", "python_pickle", "dotnet">>,
     filter |-> <<"none", "basic_signature", "basic_class", "php_basic", "allowlist",
                  "blocklist">>]

\* modules.ValidateConfigValue(moduleName, configKey, configValue) for the
\* deserialization module: whether the value is a valid option, the valid
\* options, and the first of them as default when it is not
ValidateConfigValue(configKey, configValue) ==
    IF configKey \notin DOMAIN DeserValidVariants
    THEN [isValid |-> TRUE, validOptions |-> <<>>, defaultVal |-> ""]
    ELSE IF \E k \in 1..Len(DeserValidVariants[configKey]) :
               DeserValidVariants[configKey][k] = configValue
    THEN [isValid |-> TRUE, validOptions |-> DeserValidVariants[configKey], defaultVal |-> ""]
    ELSE [isValid |-> FALSE, validOptions |-> DeserValidVariants[configKey],
          defaultVal |-> DeserValidVariants[configKey][1]]

\* C22: when the format option of a deserialization endpoint has a value
\* outside the valid variants (the spec loads with a warning and the default
\* auto), every request is answered as it is with format auto.
C22_InvalidOptionBehavesAsDefault ==
    ~ValidateConfigValue("format", probe.format).isValid
    => \A i \in 1..Len(probeLog) :
          \E visit \in RangeOrders(Len(JavaGadgetChains)) :
              probeLog[i] =
                  processSerializedData(
                      probe.input, ValidateConfigValue("format", probe.format).defaultVal,
                      probe.emulateExec, visit)

\* C25: every deserialization result with detected = true has a non-empty
\* payload_type, whatever the payload and whether or not emulate_execution
\* is on.
C25_DetectedHasPayloadType ==
    \A i \in 1..Len(probeLog) :
        probeLog[i].detected => probeLog[i].payload_type # ""

\* C28: every deserialization result with exploitable = true has a non-empty
\* warning, in all four formats, also when only the command extraction made
\* it exploitable.
C28_ExploitableHasWarning ==
    \A i \in 1..Len(probeLog) :
        probeLog[i].exploitable => probeLog[i].warning # <<>>

\* ------------------------------------------------------------------------
\* NoSQL injection: detection and emulation
\* ------------------------------------------------------------------------

\* The words of the MongoDB inputs: two clean words, operators, a code
\* pattern and a string break
MongoWords ==
    {"admin", "18", "$ne", "$gt", "$gte", "$lt", "$in", "$or", "$regex", "$where",
     "$expr", "$function", "$accumulator", "this.password", "a\":\"b"}

\* The words of the Redis inputs: clean words, a line break, an escaped line
\* break, a Lua call and command words, one of them in lower case
RedisWords ==
    {"user:1", "admin", "CRLF", "ESC_CRLF", "redis.call", "EVAL", "CONFIG", "config",
     "FLUSHALL", "KEYS *", "SCAN"}

\* The detection patterns that match inside a word
NoSQLOccurs(w) ==
    CASE w = "$gte"          -> {"$gt", "$gte"}
      [] w \in {"$ne", "$gt", "$lt", "$in", "$or", "$regex", "$where", "$expr",
                "$function", "$accumulator"} -> {w}
      [] w = "this.password" -> {"this."}
      [] w = "a\":\"b"       -> {"string_break"}
      [] w = "\",\"active\":{\"$ne\":false}}" -> {"$ne"}
      [] w = "{\"age\":{\"$gt\":"             -> {"$gt"}
      [] w = "CRLF"          -> {"\\r\\n"}
      [] w = "ESC_CRLF"      -> {"\\\\r\\\\n"}
      [] w = "redis.call"    -> {"redis.call"}
      [] w \in {"EVAL", "CONFIG", "FLUSHALL", "KEYS *", "SCAN"} -> {w}
      [] OTHER               -> {}

\* regexp.MatchString(pattern, text) and strings.Contains(text, pattern) for a
\* detection pattern
MatchString(pattern, text) == \E i \in 1..Len(text) : pattern \in NoSQLOccurs(text[i])

\* strings.ToUpper on a word
UpperWord(w) ==
    CASE w = "user:1"     -> "USER:1"
      [] w = "admin"      -> "ADMIN"
      [] w = "redis.call" -> "REDIS.CALL"
      [] w = "config"     -> "CONFIG"
      [] w = "get"        -> "GET"
      [] OTHER            -> w

\* strings.ToUpper(s)
ToUpper(s) == [i \in 1..Len(s) |-> UpperWord(s[i])]

\* detectMongoDBInjection's operatorPatterns map, in the order the source
\* lists its entries
operatorPatterns ==
    << <<"$ne", "operator_ne">>, <<"$gt", "operator_gt">>, <<"$gte", "operator_gte">>,
       <<"$lt", "operator_lt">>, <<"$lte", "operator_lte">>, <<"$in", "operator_in">>,
       <<"$nin", "operator_nin">>, <<"$or", "operator_or">>, <<"$and", "operator_and">>,
       <<"$not", "operator_not">>, <<"$nor", "operator_nor">>,
       <<"$exists", "operator_exists">>, <<"$regex", "operator_regex">>,
       <<"$where", "javascript_injection">>, <<"$expr", "expression_injection">>,
       <<"$function", "javascript_injection">>,
       <<"$accumulator", "javascript_injection">> >>

\* detectRedisInjection's dangerousCommands map, in the order the source lists
\* its entries
dangerousCommands ==
    << <<"EVAL", "lua_injection">>, <<"EVALSHA", "lua_injection">>,
       <<"SCRIPT", "script_injection">>, <<"CONFIG", "config_manipulation">>,
       <<"FLUSHALL", "data_destruction">>, <<"FLUSHDB", "data_destruction">>,
       <<"SHUTDOWN", "server_shutdown">>, <<"DEBUG", "debug_command">>,
       <<"SLAVEOF", "replication_attack">>, <<"REPLICATOF", "replication_attack">>,
       <<"MODULE", "module_loading">>, <<"KEYS *", "key_enumeration">>,
       <<"SCAN", "key_enumeration">> >>

\* for pattern, injType := range table { if matched { return injType, true } }:
\* the entries the range can reach first among those that match, the range
\* order of a map being the runtime's choice; {0} when no entry matches
RangeFirsts(table, text) ==
    IF \E i \in 1..Len(table) : MatchString(table[i][1], text)
    THEN {i \in 1..Len(table) : MatchString(table[i][1], text)}
    ELSE {0}

\* The query templates of the endpoints
TemplateUser == <<"{\"username\":\"", "{input}", "\"}">>
TemplateActive == <<"{\"username\":\"", "{input}", "\",\"active\":{\"$ne\":false}}">>
TemplateAge == <<"{\"age\":{\"$gt\":", "{input}", "}}">>

\* json.Unmarshal(queryStr) returns no error: a number, or a template's
\* document with the input in a string (no quote in it) or as a number
ValidJSON(q) ==
    \/ q = <<"18">>
    \/ /\ Len(q) >= 2
       /\ q[1] = "{\"username\":\""
       /\ q[Len(q)] \in {"\"}", "\",\"active\":{\"$ne\":false}}"}
       /\ \A i \in 2..(Len(q) - 1) : q[i] \in MongoWords \ {"a\":\"b"}
    \/ q = <<"{\"age\":{\"$gt\":", "18", "}}">>

\* processMongoDBQuery: the query string detection runs on.  The template
\* with the input in place of {input}, or the raw input; when that is not
\* JSON, the input wrapped in a username document.
MongoQueryStr(input, queryTemplate) ==
    LET parsed(candidate) ==
            IF ValidJSON(candidate) THEN candidate
            ELSE <<"{\"username\":\"">> \o input \o <<"\"}">>
    IN  parsed(IF queryTemplate # EmptyStr
               THEN ReplaceAll(queryTemplate, <<"{input}">>, input)
               ELSE input)

\* detectMongoDBInjection(input, queryStr); first is the operatorPatterns
\* entry the range reached first among the matching ones.  The auth-bypass
\* signatures need a quote next to the operator: no input word has one.
detectMongoDBInjection(input, queryStr, first) ==
    IF first # 0 THEN [injection_type |-> operatorPatterns[first][2], exploitable |-> TRUE]
    ELSE IF MatchString("this.", input \o queryStr)
    THEN [injection_type |-> "javascript_injection", exploitable |-> TRUE]
    ELSE IF MatchString("string_break", input)
    THEN [injection_type |-> "json_injection", exploitable |-> TRUE]
    ELSE [injection_type |-> "none", exploitable |-> FALSE]

\* getMongoSampleData(collection): the _id of each document
getMongoSampleData(collection) ==
    CASE collection = "users"    -> <<"507f1f77bcf86cd799439011", "507f1f77bcf86cd799439012",
                                      "507f1f77bcf86cd799439013">>
      [] collection = "sessions" -> <<"sess001", "sess002">>
      [] OTHER                   -> <<"doc001", "doc002", "doc003">>

\* emulateMongoFind(collection, query, injType, exploitable)
emulateMongoFind(collection, injType, exploitable) ==
    LET sampleData == getMongoSampleData(collection)
        take(n) == [results |-> SubSeq(sampleData, 1, n), count |-> n]
    IN  IF exploitable /\ injType \in {"operator_ne", "auth_bypass", "operator_gt",
                                        "operator_exists", "javascript_injection"}
        THEN take(Len(sampleData))
        ELSE IF exploitable /\ injType = "operator_regex"
        THEN take(IF Len(sampleData) < 2 THEN Len(sampleData) ELSE 2)
        ELSE IF Len(sampleData) > 0 THEN take(1)
        ELSE take(0)

\* processMongoDBQuery(input, collection, operation, queryTemplate,
\* showErrors) for the operations find and findOne
processMongoDBQuery(input, collection, operation, queryTemplate, first) ==
    LET result(d) ==
            [database |-> "mongodb", operation |-> operation,
             injection_type |-> d.injection_type, exploitable |-> d.exploitable,
             results |-> emulateMongoFind(collection, d.injection_type, d.exploitable).results,
             count |-> emulateMongoFind(collection, d.injection_type, d.exploitable).count]
    IN  result(detectMongoDBInjection(input, MongoQueryStr(input, queryTemplate), first))

\* processRedisCommand: the command detection runs on
RedisCommand(input, commandTemplate) ==
    IF commandTemplate # EmptyStr
    THEN ReplaceAll(commandTemplate, <<"{input}">>, input)
    ELSE input

\* detectRedisInjection(input, command); first is the dangerousCommands entry
\* the range reached first among the matching ones
detectRedisInjection(input, command, first) ==
    IF MatchString("\\r\\n", input)
    THEN [injection_type |-> "crlf_injection", exploitable |-> TRUE]
    ELSE IF MatchString("\\\\r\\\\n", input)
    THEN [injection_type |-> "command_chaining", exploitable |-> TRUE]
    ELSE IF MatchString("redis.call", input \o command)
    THEN [injection_type |-> "lua_injection", exploitable |-> TRUE]
    ELSE IF first # 0
    THEN [injection_type |-> dangerousCommands[first][2], exploitable |-> TRUE]
    ELSE [injection_type |-> "none", exploitable |-> FALSE]

\* processRedisCommand(input, operation, commandTemplate, showErrors): the
\* command built and the fields detection sets
processRedisCommand(input, operation, commandTemplate, first) ==
    LET result(d) ==
            [database |-> "redis", operation |-> operation,
             executed_command |-> RedisCommand(input, commandTemplate),
             injection_type |-> d.injection_type, exploitable |-> d.exploitable]
    IN  result(detectRedisInjection(input, RedisCommand(input, commandTemplate), first))

\* Inputs of up to MaxData words
MongoInputs == UNION {[1..n -> MongoWords] : n \in 0..MaxData}
RedisInputs == UNION {[1..n -> RedisWords] : n \in 0..MaxData}

\* The endpoint's configuration and the input of the requests: template is
\* the option query_template, command_template the option of that name
InitNoSQL ==
    /\ ConcurrentOff
    /\ FetchOff
    /\ FilesystemOff
    /\ Build(BareEndpoint)
    /\ PipelineIdle
    /\ ExtractOff
    /\ StopOff
    /\ RegistryOff
    /\ BuildOff
    /\ \/ \E input \in MongoInputs, operation \in {"find", "findOne"},
             collection \in {"users", "sessions"},
             template \in {EmptyStr, TemplateUser, TemplateActive, TemplateAge} :
             probe = [database |-> "mongodb", input |-> input, operation |-> operation,
                      collection |-> collection, template |-> template,
                      command_template |-> EmptyStr]
       \/ \E input \in RedisInputs,
             template \in {EmptyStr, <<"GET", "{input}">>,
                           <<"SCAN", "0", "MATCH", "{input}">>},
             commandTemplate \in {EmptyStr, <<"GET", "{input}">>} :
             probe = [database |-> "redis", input |-> input, operation |-> "get",
                      collection |-> "users", template |-> template,
                      command_template |-> commandTemplate]
    /\ probeLog = <<>>

\* NoSQLInjection.Handle on a MongoDB endpoint
HandleMongoDB ==
    /\ probe.database = "mongodb"
    /\ Len(probeLog) < MaxInvocations
    /\ \E first \in RangeFirsts(operatorPatterns,
                               probe.input \o MongoQueryStr(probe.input, probe.template)) :
          probeLog' = Append(probeLog,
                             processMongoDBQuery(probe.input, probe.collection,
                                                 probe.operation, probe.template, first))
    /\ UNCHANGED <<probe, outsideProbe>>

\* NoSQLInjection.Handle on a Redis endpoint: the template it hands to
\* processRedisCommand is ctx.GetConfigString("query_template", "")
HandleRedis ==
    /\ probe.database = "redis"
    /\ Len(probeLog) < MaxInvocations
    /\ \E first \in RangeFirsts(dangerousCommands,
                               ToUpper(probe.input \o RedisCommand(probe.input, probe.template))) :
          probeLog' = Append(probeLog,
                             processRedisCommand(probe.input, probe.operation,
                                                 probe.template, first))
    /\ UNCHANGED <<probe, outsideProbe>>

NextNoSQL == HandleMongoDB \/ HandleRedis

SpecNoSQL == InitNoSQL /\ [][NextNoSQL]_vars

\* The first entry, in the order the table lists them, that matches
FirstListed(table, text) ==
    IF RangeFirsts(table, text) = {0} THEN 0
    ELSE CHOOSE i \in RangeFirsts(table, text) : \A j \in RangeFirsts(table, text) : i <= j

\* C15: MongoDB detection assigns the type of the first rule that fires in
\* the listed order (the operator patterns from $ne on, then the code
\* patterns, the string breaks, the auth-bypass signatures), and an input
\* that matches several rules gets the same type on every invocation.
C15_MongoFirstListedRuleEveryTime ==
    probe.database = "mongodb"
    => \A i \in 1..Len(probeLog) :
          /\ probeLog[i].injection_type =
                detectMongoDBInjection(
                    probe.input, MongoQueryStr(probe.input, probe.template),
                    FirstListed(operatorPatterns,
                                probe.input \o MongoQueryStr(probe.input, probe.template))
                ).injection_type
          /\ \A j \in 1..Len(probeLog) :
                probeLog[i].injection_type = probeLog[j].injection_type

\* The operators among the words of an input
OperatorsIn(input) ==
    {input[i] : i \in 1..Len(input)} \cap {operatorPatterns[k][1] : k \in 1..Len(operatorPatterns)}

\* The class the operator table gives an operator: javascript_injection for
\* the last three, operator_<name> for the others
OperatorClass(op) ==
    CASE op \in {"$expr", "$function", "$accumulator"} -> "javascript_injection"
      [] op = "$ne"    -> "operator_ne"
      [] op = "$gt"    -> "operator_gt"
      [] op = "$gte"   -> "operator_gte"
      [] op = "$lt"    -> "operator_lt"
      [] op = "$in"    -> "operator_in"
      [] op = "$or"    -> "operator_or"
      [] op = "$regex" -> "operator_regex"
      [] op = "$where" -> "operator_where"
      [] OTHER         -> "operator"

\* C16: a MongoDB input whose only operator is $expr, $function or
\* $accumulator is classed javascript_injection, one whose only operator is
\* another listed operator $x is classed operator_x.  The endpoint has no
\* query template.
C16_OnlyOperatorClass ==
    (/\ probe.database = "mongodb"
     /\ probe.template = EmptyStr
     /\ \E op \in OperatorsIn(probe.input) : OperatorsIn(probe.input) = {op})
    => \A i \in 1..Len(probeLog), op \in OperatorsIn(probe.input) :
          probeLog[i].injection_type = OperatorClass(op)

\* C17: Redis detection returns the type of the first matching rule in the
\* order literal CRLF, escaped CRLF, Lua patterns, then the command words as
\* listed, on every invocation.
C17_RedisFirstListedRuleEveryTime ==
    probe.database = "redis"
    => \A i \in 1..Len(probeLog) :
          /\ probeLog[i].injection_type =
                detectRedisInjection(
                    probe.input, RedisCommand(probe.input, probe.template),
                    FirstListed(dangerousCommands,
                                ToUpper(probe.input \o RedisCommand(probe.input, probe.template)))
                ).injection_type
          /\ \A j \in 1..Len(probeLog) :
                probeLog[i].injection_type = probeLog[j].injection_type

\* C18: a request whose input has none of the detection patterns gets
\* exploitable = false and injection_type none, whatever the database, the
\* operation and the template of the endpoint.
C18_CleanInputNeverExploitable ==
    (\A k \in 1..Len(probe.input) : probe.input[k] \in {"admin", "18", "user:1"})
    => \A i \in 1..Len(probeLog) :
          /\ ~probeLog[i].exploitable
          /\ probeLog[i].injection_type = "none"

\* C19: on the MongoDB path with operation find or findOne, every request
\* detected as exploitable gets the whole sample dataset of the collection,
\* and count is the size of that dataset.
C19_ExploitableFindReturnsAll ==
    (probe.database = "mongodb" /\ probe.operation \in {"find", "findOne"})
    => \A i \in 1..Len(probeLog) :
          probeLog[i].exploitable
          => /\ probeLog[i].results = getMongoSampleData(probe.collection)
             /\ probeLog[i].count = Len(getMongoSampleData(probe.collection))

\* ------------------------------------------------------------------------
\* Build: the routes of a validated spec
\* ------------------------------------------------------------------------

MaxEndpoints == 2

\* The endpoint declarations a spec is written with
EndpointDecls ==
    [method : {"GET", "POST", "get", "FETCH"}, path : {"/health", "/a", "/b", "b"}]

\* The specs: up to MaxEndpoints declarations
ConfigEndpoints == UNION {[1..n -> EndpointDecls] : n \in 0..MaxEndpoints}

\* validateEndpoints(endpoints) returns no error: there is an endpoint, every
\* path starts with "/", every method is a valid one once in upper case, and
\* no two endpoints have the same upper-case method and path
validateEndpoints(endpoints) ==
    /\ Len(endpoints) > 0
    /\ \A i \in 1..Len(endpoints) :
          /\ endpoints[i].path \in {"/health", "/a", "/b"}
          /\ UpperWord(endpoints[i].method) \in {"GET", "POST", "PUT", "DELETE", "PATCH"}
    /\ \A i, j \in 1..Len(endpoints) :
          (/\ UpperWord(endpoints[i].method) = UpperWord(endpoints[j].method)
           /\ endpoints[i].path = endpoints[j].path)
          => i = j

\* http.NewServeMux()
NewServeMux == [patterns |-> <<>>, panicked |-> FALSE]

\* Router.HandleFunc(method, path, handler): the pattern "METHOD path" is
\* registered with the mux, which panics when the pattern conflicts with a
\* registered one
HandleFunc(m, method, path, handler) ==
    IF m.panicked THEN m
    ELSE IF \E k \in 1..Len(m.patterns) :
               m.patterns[k].method = method /\ m.patterns[k].path = path
    THEN [m EXCEPT !.panicked = TRUE]
    ELSE [m EXCEPT !.patterns =
              Append(@, [method |-> method, path |-> path, handler |-> handler])]

\* Builder.registerEndpoint for the endpoints from the i-th on; the handler of
\* the i-th endpoint is named i
RECURSIVE registerEndpoints(_, _, _)
registerEndpoints(m, endpoints, i) ==
    IF i > Len(endpoints) THEN m
    ELSE registerEndpoints(
             HandleFunc(m, endpoints[i].method, endpoints[i].path, i), endpoints, i + 1)

\* Builder.Build: the routes; the health handler is named 0
Builder_Build(endpoints) ==
    registerEndpoints(HandleFunc(NewServeMux, "GET", "/health", 0), endpoints, 1)

\* ServeMux.ServeHTTP: the handler of the pattern with the request's method
\* and path; 405 when only patterns with another method have the path, 404
\* when none has
MuxServe(m, method, path) ==
    IF \E k \in 1..Len(m.patterns) :
          m.patterns[k].method = method /\ m.patterns[k].path = path
    THEN [status |-> 200,
          handler |-> (CHOOSE p \in {m.patterns[k] : k \in 1..Len(m.patterns)} :
                          p.method = method /\ p.path = path).handler]
    ELSE IF \E k \in 1..Len(m.patterns) : m.patterns[k].path = path
    THEN [status |-> 405, handler |-> -1]
    ELSE [status |-> 404, handler |-> -1]

NoAnswer == [sent |-> FALSE]

\* main loaded a spec that validation accepted
InitBuild ==
    /\ ConcurrentOff
    /\ FetchOff
    /\ FilesystemOff
    /\ Build(BareEndpoint)
    /\ PipelineIdle
    /\ ExtractOff
    /\ StopOff
    /\ RegistryOff
    /\ ProbeOff
    /\ cfgEndpoints \in {eps \in ConfigEndpoints : validateEndpoints(eps)}
    /\ mux = NewServeMux
    /\ buildPc = "loaded"
    /\ answer = NoAnswer

\* b.Build()
BuildServer ==
    /\ buildPc = "loaded"
    /\ mux' = Builder_Build(cfgEndpoints)
    /\ buildPc' = IF Builder_Build(cfgEndpoints).panicked THEN "panic" ELSE "built"
    /\ UNCHANGED <<cfgEndpoints, answer, outsideBuild>>

\* A client sends a request with the HTTP method and the path of a declared
\* endpoint
ClientRequest ==
    /\ buildPc = "built"
    /\ \E i \in 1..Len(cfgEndpoints) :
          answer' = [sent |-> TRUE, endpoint |-> i,
                     status |-> MuxServe(mux, UpperWord(cfgEndpoints[i].method),
                                         cfgEndpoints[i].path).status,
                     handler |-> MuxServe(mux, UpperWord(cfgEndpoints[i].method),
                                          cfgEndpoints[i].path).handler]
    /\ UNCHANGED <<cfgEndpoints, mux, buildPc, outsideBuild>>

NextBuild == BuildServer \/ ClientRequest

SpecBuild == InitBuild /\ [][NextBuild]_vars

\* C20: for every spec that validation accepts, Build returns without a
\* panic and every declared endpoint answers a request with its method and
\* path through its own handler, also when the spec declares GET /health or
\* writes a method in lower case.
C20_BuildSucceedsEveryEndpointAnswers ==
    /\ buildPc # "panic"
    /\ answer.sent => answer.handler = answer.endpoint

\* C21: every endpoint method that passed validation and reached route
\* registration is one of the five strings GET, POST, PUT, DELETE, PATCH.
C21_RegisteredMethodIsOneOfFive ==
    \A k \in 1..Len(mux.patterns) :
        mux.patterns[k].method \in {"GET", "POST", "PUT", "DELETE", "PATCH"}

\* ------------------------------------------------------------------------
\* Filesystem sink: construction and Close (sinks/filesystem.go)
\* A path is the sequence of its components; the disk is the set of the
\* directories that exist.
\* ------------------------------------------------------------------------

MaxFilesystems == 2

\* Names a caller of NewFilesystemWithPath puts in a base path
DirNames == {"srv", "lab", "flawfactory-lab"}

\* The names os.MkdirTemp("", "flawfactory-*") can produce under os.TempDir()
TempNames == {"flawfactory-1", "flawfactory-2"}

BasePaths == {<<a>> : a \in DirNames} \cup {<<a, b>> : a, b \in DirNames}

\* strings.Contains(name, "flawfactory-") for one path component; the
\* pattern holds no separator, so it occurs in a path iff in a component
NameContainsFlawfactory(name) ==
    name \in {"flawfactory-lab", "flawfactory-1", "flawfactory-2"}

\* strings.Contains(basePath, "flawfactory-")
ContainsFlawfactory(basePath) ==
    \E k \in 1..Len(basePath) : NameContainsFlawfactory(basePath[k])

IsUnder(dir, root) ==
    /\ Len(dir) >= Len(root)
    /\ SubSeq(dir, 1, Len(root)) = root

\* os.MkdirAll(path): the directory and every missing parent
MkdirAll(d, path) == d \cup {SubSeq(path, 1, k) : k \in 1..Len(path)}

\* os.RemoveAll(path): the directory and everything below it
RemoveAll(d, path) == {dir \in d : ~IsUnder(dir, path)}

\* fs.createDefaultFiles(): the directories of the default files
createDefaultFiles(d, basePath) ==
    MkdirAll(MkdirAll(MkdirAll(d, basePath \o <<"etc">>), basePath \o <<"app">>),
             basePath \o <<"var", "log">>)

\* (fs *Filesystem) Close(): what is left on the disk
Filesystem_Close(d, basePath) ==
    IF ContainsFlawfactory(basePath) THEN RemoveAll(d, basePath) ELSE d

InitFilesystem ==
    /\ ConcurrentOff
    /\ FetchOff
    /\ Build(BareEndpoint)
    /\ PipelineIdle
    /\ ExtractOff
    /\ StopOff
    /\ RegistryOff
    /\ ProbeOff
    /\ BuildOff
    /\ filesystems = <<>>
    /\ disk = {<<"tmp">>}

\* sinks.NewFilesystem()
NewFilesystem ==
    /\ Len(filesystems) < MaxFilesystems
    /\ \E name \in TempNames :
          /\ <<"tmp", name>> \notin disk
          /\ disk' = createDefaultFiles(MkdirAll(disk, <<"tmp", name>>), <<"tmp", name>>)
          /\ filesystems' = Append(filesystems,
                [basePath |-> <<"tmp", name>>, temporary |-> TRUE, closed |-> FALSE])
    /\ UNCHANGED outsideFilesystem

\* sinks.NewFilesystemWithPath(basePath)
NewFilesystemWithPath ==
    /\ Len(filesystems) < MaxFilesystems
    /\ \E basePath \in BasePaths :
          /\ disk' = MkdirAll(disk, basePath)
          /\ filesystems' = Append(filesystems,
                [basePath |-> basePath, temporary |-> FALSE, closed |-> FALSE])
    /\ UNCHANGED outsideFilesystem

\* fs.Close() on one of the filesystems
CloseFilesystem ==
    /\ \E i \in 1..Len(filesystems) :
          /\ ~filesystems[i].closed
          /\ disk' = Filesystem_Close(disk, filesystems[i].basePath)
          /\ filesystems' = [filesystems EXCEPT ![i].closed = TRUE]
    /\ UNCHANGED outsideFilesystem

NextFilesystem ==
    \/ NewFilesystem
    \/ NewFilesystemWithPath
    \/ CloseFilesystem

SpecFilesystem == InitFilesystem /\ [][NextFilesystem]_vars

\* C23: after Close, the base directory of a filesystem made by
\* NewFilesystemWithPath still exists, whatever its name.
C23_WithPathRootSurvivesClose ==
    \A i \in 1..Len(filesystems) :
        (filesystems[i].closed /\ ~filesystems[i].temporary)
            => filesystems[i].basePath \in disk

\* C24: the handles in the sink context handed to the modules are exactly the
\* planned ones: SQLite iff some vulnerability is sql_injection or a table is
\* declared, the filesystem iff some vulnerability is path_traversal or a
\* file is declared, the command sink iff some vulnerability is
\* command_injection, the HTTP sink iff some vulnerability is ssrf.
C24_SinkContextEqualsPlannedSet ==
    \A given \in {createSinkContext(sinkManager)} :
        /\ given.sqlite <=>
              \/ \E i \in 1..Len(endpoint.vulns) : endpoint.vulns[i].type = "sql_injection"
              \/ endpoint.hasTables
        /\ given.filesystem <=>
              \/ \E i \in 1..Len(endpoint.vulns) : endpoint.vulns[i].type = "path_traversal"
              \/ endpoint.hasFiles
        /\ given.command <=>
              \E i \in 1..Len(endpoint.vulns) : endpoint.vulns[i].type = "command_injection"
        /\ given.http <=>
              \E i \in 1..Len(endpoint.vulns) : endpoint.vulns[i].type = "ssrf"

\* A module was handed a context whose filesystem handle exists only because
\* a file is declared, and which has no SQLite handle
C24_Witness ==
    /\ phase = "served"
    /\ Len(stage) = 1
    /\ stage[1] = "ok"
    /\ endpoint.vulns[1].type # "path_traversal"
    /\ endpoint.hasFiles
    /\ createSinkContext(sinkManager).filesystem
    /\ ~createSinkContext(sinkManager).sqlite

\* C26: on a Redis endpoint with the option command_template set, the
\* executed command is that template with every {input} replaced by the
\* input, and the injection detection runs on that command.
C26_RedisCommandTemplateApplied ==
    (probe.database = "redis" /\ probe.command_template # EmptyStr)
    => \A i \in 1..Len(probeLog) :
          /\ probeLog[i].executed_command = RedisCommand(probe.input, probe.command_template)
          /\ \E first \in RangeFirsts(dangerousCommands,
                    ToUpper(probe.input \o RedisCommand(probe.input, probe.command_template))) :
                probeLog[i] = processRedisCommand(probe.input, probe.operation,
                                                  probe.command_template, first)

\* ------------------------------------------------------------------------
\* HTTP sink: FetchWithOptions and redirects (sinks/http.go)
\* ------------------------------------------------------------------------

MaxFetches == 2

\* The most redirects a client follows: the sink's CheckRedirect and
\* net/http's default policy both stop after ten requests
MaxRedirects == 10

\* What the servers answer to a GET: the status and, for a redirect, where to
FetchURLs == {"http://a/", "http://b/", "http://c/", "http://loop/"}

Web(url) ==
    CASE url = "http://a/"    -> [status |-> 302, location |-> "http://b/"]
      [] url = "http://b/"    -> [status |-> 301, location |-> "http://c/"]
      [] url = "http://c/"    -> [status |-> 200, location |-> ""]
      [] url = "http://loop/" -> [status |-> 307, location |-> "http://loop/"]

\* opts.Timeout, in seconds
Timeouts == {-1, 0, 5, 30}

\* http.Client: its Timeout in seconds and its CheckRedirect, "limit" (fail
\* after MaxRedirects requests), "use_last" (return http.ErrUseLastResponse)
\* or "nil" (net/http's default, which is as "limit")
Client(timeout, checkRedirect) == [timeout |-> timeout, checkRedirect |-> checkRedirect]

\* sinks.NewHTTP()
NewHTTP == [client |-> Client(30, "limit"), timeout |-> 30]

\* sinks.NewHTTPWithOptions(timeout, followRedirects)
NewHTTPWithOptions(timeout, followRedirects) ==
    [client |-> Client(timeout, IF followRedirects THEN "nil" ELSE "use_last"),
     timeout |-> timeout]

\* client.Do(req) for a GET of url after via earlier requests: the response
\* returned, the requests made, and the error
RECURSIVE ClientDo(_, _, _)
ClientDo(client, url, via) ==
    IF Web(url).status \in 300..399 /\ Web(url).location # ""
    THEN IF client.checkRedirect = "use_last"
         THEN [status_code |-> Web(url).status, requests |-> via + 1, err |-> ""]
         ELSE IF via + 1 >= MaxRedirects
         THEN [status_code |-> 0, requests |-> via + 1,
               err |-> "request failed: too many redirects"]
         ELSE ClientDo(client, Web(url).location, via + 1)
    ELSE [status_code |-> Web(url).status, requests |-> via + 1, err |-> ""]

\* The client FetchWithOptions makes the request with
FetchClient(h, opts) ==
    IF opts.Timeout > 0
    THEN Client(opts.Timeout, IF opts.FollowRedirects THEN "nil" ELSE "use_last")
    ELSE h.client

\* (h *HTTP) FetchWithOptions(url, opts)
FetchWithOptions(h, url, opts) == ClientDo(FetchClient(h, opts), url, 0)

InitFetch ==
    /\ ConcurrentOff
    /\ Build(BareEndpoint)
    /\ PipelineIdle
    /\ ExtractOff
    /\ StopOff
    /\ RegistryOff
    /\ ProbeOff
    /\ BuildOff
    /\ FilesystemOff
    /\ httpSink \in {NewHTTP} \cup
                    {NewHTTPWithOptions(30, follow) : follow \in BOOLEAN}
    /\ fetchLog = <<>>

\* A caller of the sink fetches a URL
Fetch ==
    /\ Len(fetchLog) < MaxFetches
    /\ \E url \in FetchURLs, follow \in BOOLEAN, timeout \in Timeouts :
          fetchLog' = Append(fetchLog,
              [url |-> url,
               opts |-> [Method |-> "GET", FollowRedirects |-> follow, Timeout |-> timeout],
               resp |-> FetchWithOptions(httpSink, url,
                           [Method |-> "GET", FollowRedirects |-> follow,
                            Timeout |-> timeout])])
    /\ UNCHANGED <<httpSink, outsideFetch>>

NextFetch == Fetch

SpecFetch == InitFetch /\ [][NextFetch]_vars

\* C27: a FetchWithOptions call with FollowRedirects off makes one request
\* and returns the response to it, a 3xx included, whatever opts.Timeout is.
C27_NoFollowReturnsRedirectItself ==
    \A i \in 1..Len(fetchLog) :
        ~fetchLog[i].opts.FollowRedirects
        => /\ fetchLog[i].resp.err = ""
           /\ fetchLog[i].resp.requests = 1
           /\ fetchLog[i].resp.status_code = Web(fetchLog[i].url).status

\* ------------------------------------------------------------------------
\* Registry: Register called by two goroutines at once (modules/registry.go)
\* The registry's map is the variable modules.
\* ------------------------------------------------------------------------

MaxGets == 2

Goroutines == {1, 2}

\* sync.RWMutex with nothing held
NewRWMutex == [writer |-> 0, readers |-> 0]

\* A mutex whose Lock never waits
RWMutex_LockNeverWaits(m) == TRUE

\* r.mu.Lock() can return: no writer and no reader holds the mutex
RWMutex_CanLock(m) == m.writer = 0 /\ m.readers = 0

\* r.mu.RLock() can return: no writer holds the mutex
RWMutex_CanRLock(m) == m.writer = 0

\* The registries the goroutines start on: empty, or holding one module
RegistriesBefore ==
    {<<>>} \cup {Registry_Register(<<>>, m).modules :
                    m \in {m \in Modules : m.name = <<"module_a">> /\ m.version = 1}}

InitConcurrent ==
    /\ Build(BareEndpoint)
    /\ PipelineIdle
    /\ ExtractOff
    /\ StopOff
    /\ ProbeOff
    /\ BuildOff
    /\ FilesystemOff
    /\ FetchOff
    /\ lastReg = NoRegisterCall
    /\ modules \in RegistriesBefore
    /\ regBefore = modules
    /\ mu = NewRWMutex
    /\ goroutines \in [Goroutines -> [pc : {"call"}, module : Modules, err : {""}]]
    /\ reader = [pc |-> "idle", name |-> EmptyStr, later |-> FALSE]
    /\ getLog = <<>>

\* r.mu.Lock()
RegisterLock(g) ==
    /\ goroutines[g].pc = "call"
    /\ RWMutex_CanLock(mu)
    /\ mu' = [mu EXCEPT !.writer = g]
    /\ goroutines' = [goroutines EXCEPT ![g].pc = "locked"]
    /\ UNCHANGED <<modules, lastReg, reader, getLog, regBefore, outsideConcurrent>>

\* info := module.Info(); if info.Name == "" { return error }
RegisterCheckName(g) ==
    /\ goroutines[g].pc = "locked"
    /\ goroutines' =
          IF goroutines[g].module.name = EmptyStr
          THEN [goroutines EXCEPT ![g].pc = "unlock",
                                  ![g].err = "module name cannot be empty"]
          ELSE [goroutines EXCEPT ![g].pc = "named"]
    /\ UNCHANGED <<mu, modules, lastReg, reader, getLog, regBefore, outsideConcurrent>>

\* if _, exists := r.modules[info.Name]; exists { return error }
RegisterCheckExists(g) ==
    /\ goroutines[g].pc = "named"
    /\ goroutines' =
          IF goroutines[g].module.name \in DOMAIN modules
          THEN [goroutines EXCEPT ![g].pc = "unlock",
                                  ![g].err = "module is already registered"]
          ELSE [goroutines EXCEPT ![g].pc = "absent"]
    /\ UNCHANGED <<mu, modules, lastReg, reader, getLog, regBefore, outsideConcurrent>>

\* r.modules[info.Name] = module; return nil
RegisterStore(g) ==
    /\ goroutines[g].pc = "absent"
    /\ modules' = [n \in DOMAIN modules \cup {goroutines[g].module.name} |->
                      IF n = goroutines[g].module.name THEN goroutines[g].module
                      ELSE modules[n]]
    /\ goroutines' = [goroutines EXCEPT ![g].pc = "unlock"]
    /\ UNCHANGED <<mu, lastReg, reader, getLog, regBefore, outsideConcurrent>>

\* defer r.mu.Unlock(), then Register returns
RegisterUnlock(g) ==
    /\ goroutines[g].pc = "unlock"
    /\ mu' = [mu EXCEPT !.writer = 0]
    /\ goroutines' = [goroutines EXCEPT ![g].pc = "done"]
    /\ UNCHANGED <<modules, lastReg, reader, getLog, regBefore, outsideConcurrent>>

\* Get(name) is called and takes r.mu.RLock(); later tells whether both
\* Register calls had returned when it was called
GetRLock ==
    /\ reader.pc = "idle"
    /\ Len(getLog) < MaxGets
    /\ RWMutex_CanRLock(mu)
    /\ \E g \in Goroutines :
          reader' = [pc |-> "reading", name |-> goroutines[g].module.name,
                     later |-> \A h \in Goroutines : goroutines[h].pc = "done"]
    /\ mu' = [mu EXCEPT !.readers = @ + 1]
    /\ UNCHANGED <<modules, lastReg, goroutines, getLog, regBefore, outsideConcurrent>>

\* module, exists := r.modules[name]; return; defer r.mu.RUnlock()
GetReturn ==
    /\ reader.pc = "reading"
    /\ getLog' = Append(getLog,
          [name |-> reader.name, later |-> reader.later,
           module |-> Registry_Get(modules, reader.name).module,
           err |-> Registry_Get(modules, reader.name).err])
    /\ reader' = [reader EXCEPT !.pc = "idle"]
    /\ mu' = [mu EXCEPT !.readers = @ - 1]
    /\ UNCHANGED <<modules, lastReg, goroutines, regBefore, outsideConcurrent>>

NextConcurrent ==
    \/ \E g \in Goroutines : RegisterLock(g)
    \/ \E g \in Goroutines : RegisterCheckName(g)
    \/ \E g \in Goroutines : RegisterCheckExists(g)
    \/ \E g \in Goroutines : RegisterStore(g)
    \/ \E g \in Goroutines : RegisterUnlock(g)
    \/ GetRLock
    \/ GetReturn

SpecConcurrent == InitConcurrent /\ [][NextConcurrent]_vars

\* Two different modules of one non-empty name that the registry did not hold
RacingSameName ==
    /\ goroutines[1].module.name = goroutines[2].module.name
    /\ goroutines[1].module.name # EmptyStr
    /\ goroutines[1].module # goroutines[2].module
    /\ goroutines[1].module.name \notin DOMAIN regBefore

\* C29: when two goroutines register different modules of the same non-empty
\* name that the registry does not hold, then once both calls have returned
\* exactly one has succeeded, the other has the duplicate error, and every Get
\* of the name called after that returns the module of the successful call.
C29_ConcurrentRegisterOneWinner ==
    (RacingSameName /\ \A g \in Goroutines : goroutines[g].pc = "done")
    => \E w \in Goroutines :
          /\ goroutines[w].err = ""
          /\ \A g \in Goroutines \ {w} : goroutines[g].err = "module is already registered"
          /\ \A i \in 1..Len(getLog) :
                (getLog[i].later /\ getLog[i].name = goroutines[w].module.name)
                => (getLog[i].err = "" /\ getLog[i].module = goroutines[w].module)

\* The second goroutine won the race and a later Get returned its module
C29_Witness ==
    /\ RacingSameName
    /\ \A g \in Goroutines : goroutines[g].pc = "done"
    /\ goroutines[2].err = ""
    /\ goroutines[1].err = "module is already registered"
    /\ Len(getLog) = MaxGets
    /\ getLog[MaxGets].later
    /\ getLog[MaxGets].module = goroutines[2].module

\* Info().SupportedPlacements of the registered modules
SupportedPlacements(name) ==
    CASE name \in {"sql_injection", "idor", "nosql_injection"} ->
            {"query_param", "path_param", "form_field", "json_field", "header", "cookie"}
      [] name \in {"command_injection", "xss_reflected"} ->
            {"query_param", "path_param", "form_field", "json_field", "header"}
      [] name \in {"insecure_deserialization", "xxe"} ->
            {"query_param", "form_field", "json_field", "header", "cookie"}
      [] name = "path_traversal" ->
            {"query_param", "path_param", "form_field", "json_field", "multipart-form"}
      [] name = "ssrf" -> {"query_param", "form_field", "json_field", "header"}
      [] OTHER -> {}

\* modules.ValidatePlacement(moduleName, placement) returns nil
ValidatePlacement(moduleName, placement) ==
    RegistryHas(moduleName) /\ placement \in SupportedPlacements(moduleName)

\* C30: every descriptor whose module's Handle was invoked has a placement
\* that the module lists in Info().SupportedPlacements.
C30_HandleOnlyWithSupportedPlacement ==
    \A i \in 1..Len(stage) :
        stage[i] \in {"ok", "handle_error"}
        => ValidatePlacement(endpoint.vulns[order[i]].type,
                             endpoint.vulns[order[i]].placement)

\* C11: once Stop(ctx) has returned and main has finished its shutdown
\* sequence, with or without a shutdown error, Close() has been called on
\* every provider that was provisioned (sqlite, filesystem, command, http).
C11_EveryProviderClosedAfterStop ==
    mainPc \in {"exited", "fatal"} => Provisioned(sinkManager) \subseteq closed

====
